---- MODULE Spec2Model ----
(***************************************************************************)
(* State-machine model of the request admission / authorization pipeline   *)
(* and of the server lifecycle of salesapi (cmd/api).                      *)
(*                                                                         *)
(* Time is discrete: one tick of `now` is one minute, the sleep interval   *)
(* of the limiter's sweep goroutine.  The refill rate of a bucket is given *)
(* in tokens per tick.                                                     *)
(***************************************************************************)
EXTENDS Integers, Sequences, FiniteSets, TLC

(***************************************************************************)
(* Bounds of the model.                                                    *)
(***************************************************************************)
NumReqs  == 3      \* request goroutines
NumConns == 2      \* connections the server accepts
MaxTasks == 2      \* background tasks
MaxBurst == 2      \* largest configured burst
MaxTime  == 4      \* last tick of the clock
MaxHdrLen == 4     \* longest Authorization header, in atoms
MaxTtl    == 2

(***************************************************************************)
(* Program constants.                                                      *)
(***************************************************************************)
SweepInterval == 1     \* time.Sleep(time.Minute)
IdleLimit     == 3     \* 3*time.Minute
TokenLen      == 22    \* len(plaintext) == 22
RandomBytes   == 16    \* randomBytes := make([]byte, 16)
StatusOK                  == 200
StatusBadRequest          == 400
StatusUnauthorized        == 401
StatusNotFound            == 404
StatusForbidden           == 403
StatusUnprocessableEntity == 422
StatusTooManyRequests     == 429
StatusInternalServerError == 500

Reqs       == 1..NumReqs
Identities == {"ipA", "ipB"}
Rates      == {0, 1}     \* configured refill rates, in tokens per tick
NoOne      == 0
Sweeper    == NumReqs + 1
Conns      == 1..NumConns
Tasks      == 1..MaxTasks
UserIds    == {1, 2}

VARIABLES
  chain,      \* the middleware composition in front of the final handler
  config,     \* app.config.limiter
  now,        \* the wall clock
  mu,         \* holder of the limiter mutex (NoOne when free)
  clients,    \* the limiter's map identity -> client (or "absent")
  sweeper,    \* the sweep goroutine: "sleep", "slept" (sleep over) or "sweep"
  req,        \* the request goroutines
  srv,        \* the http.Server: [listener, inShutdown]
  mainPc,     \* where the goroutine that called serve() is
  result,     \* what serve() returned: "none" (not yet), "nil" or "err"
  sigPc,      \* where the signal-handling goroutine of serve() is
  sdErr,      \* err of srv.Shutdown(ctx): "pending", "nil" or "deadline"
  grace,      \* the 30 s shutdown context
  conn,       \* the connections (request handlers) of the server
  wg,         \* app.wg, the counter of the WaitGroup
  task,       \* the goroutines started by app.background
  crashed,    \* the process died of an unrecovered panic
  atSignal,   \* history: the tasks outstanding when the signal was received
  authz,      \* the Authorization header each client sends
  tokens,     \* table tokens of the store
  users,      \* table users of the store
  permissions, \* table users_permissions of the store, joined with permissions
  issued,      \* per client: the token Tokens.New returned to it, if any
  cors,        \* per client: method, Origin and Access-Control-Request-Method
  totalRequestsReceived,      \* expvar total_requests_received
  totalResponsesSent,         \* expvar total_responses_sent
  totalResponsesSentByStatus, \* expvar total_responses_sent_by_status
  published                   \* the names in the expvar registry of the process

limVars == <<config, now, mu, clients, sweeper>>
srvVars == <<srv, mainPc, result, sigPc, sdErr, grace, conn, wg, task, crashed, atSignal>>
authVars == <<authz, tokens, users, permissions, issued, cors>>
mtVars  == <<totalRequestsReceived, totalResponsesSent, totalResponsesSentByStatus,
             published>>
vars    == <<chain, config, now, mu, clients, sweeper, req, srvVars, authVars, mtVars>>

Absent == [present |-> FALSE, tokens |-> 0, last |-> 0, lastSeen |-> 0]

\* the value of the request context: no user value, data.AnonymousUser, or a
\* *data.User read from the store
NoUser        == [kind |-> "none", id |-> 0, active |-> FALSE]
AnonymousUser == [kind |-> "anonymous", id |-> 0, active |-> FALSE]

\* the metricsResponseWriter of a request: none yet, or the one made by
\* newMetricsResponseWriter(w)
NoWriter == [on |-> FALSE, statusCode |-> 0, headerWritten |-> FALSE]

newMetricsResponseWriter == [on |-> TRUE, statusCode |-> StatusOK, headerWritten |-> FALSE]

\* what enableCORS reads of a request: r.Method, the Origin header and
\* whether Access-Control-Request-Method is set
SameOrigin == [method |-> "GET", origin |-> "", acrm |-> FALSE]

\* the last call a handler made on its response writer
NoCall == [op |-> "none", code |-> 0]

\* status is the status code sent to the client (0: nothing written yet)
IdleReq == [pc |-> "idle", stage |-> 0, ip |-> "ipA", status |-> 0,
            nextCalls |-> 0, user |-> NoUser, err |-> "nil",
            lookups |-> 0, permLookups |-> 0,
            mw |-> NoWriter, logged |-> FALSE, call |-> NoCall,
            connClose |-> FALSE, recovered |-> FALSE, cancelled |-> FALSE,
            token |-> <<>>, target |-> NoUser]

Min(a, b) == IF a < b THEN a ELSE b

(***************************************************************************)
(* Middleware composition: next.ServeHTTP of stage k enters stage k+1; the *)
(* handler behind the last stage of `chain` is the final handler.          *)
(***************************************************************************)
EntryPc(name) ==
  CASE name = "rateLimit"                -> "rl_enter"
    [] name = "authenticate"             -> "au_enter"
    [] name = "requireAuthenticatedUser" -> "ra_enter"
    [] name = "requireActivatedUser"     -> "rv_enter"
    [] name = "requirePermissions"       -> "rp_enter"
    [] name = "metrics"                  -> "mt_enter"
    [] name = "recoverPanic"             -> "rc_enter"
    [] name = "showCurrentUser"          -> "sc_enter"
    [] name = "notFound"                 -> "nf_enter"
    [] name = "activateUser"             -> "av_enter"
    [] name = "updateUser"               -> "uu_enter"
    [] name = "enableCORS"               -> "co_enter"
    [] name = "handler"                  -> "h_enter"
    [] OTHER                             -> "final"

NextPc(p) ==
  IF req[p].stage < Len(chain) THEN EntryPc(chain[req[p].stage + 1]) ELSE "final"

\* next.ServeHTTP(w, r) called by request p from its current stage, with r
\* the request record it passes on
Forward(p, r) ==
  req' = [req EXCEPT ![p] = [r EXCEPT !.pc = NextPc(p), !.stage = @ + 1]]

CallNext(p) == Forward(p, req[p])

(***************************************************************************)
(* The response writers.  The http.ResponseWriter of the server sends the  *)
(* status of the first WriteHeader, or 200 with the first Write, and       *)
(* ignores a later WriteHeader.  Beneath metrics the handlers write to the *)
(* metricsResponseWriter wrapped around it (middleware.go 233-267).        *)
(***************************************************************************)
WrappedWriteHeader(r, code) == IF r.status = 0 THEN [r EXCEPT !.status = code] ELSE r

WrappedWrite(r) == IF r.status = 0 THEN [r EXCEPT !.status = StatusOK] ELSE r

FirstWriteIgnored(r, code) == [WrappedWriteHeader(r, code) EXCEPT !.mw.statusCode = code]

\* func (mw *metricsResponseWriter) WriteHeader(code int)
MwWriteHeader(r, code) ==
  LET u == WrappedWriteHeader(r, code)
  IN IF ~u.mw.headerWritten
       THEN [u EXCEPT !.mw.statusCode = code, !.mw.headerWritten = TRUE]
       ELSE u

\* func (mw *metricsResponseWriter) Write(b []byte)
MwWrite(r) == WrappedWrite([r EXCEPT !.mw.headerWritten = TRUE])

\* w.WriteHeader(code) and w.Write(b) as called by a handler on its writer w
WriteHeader(r, code) ==
  IF r.mw.on THEN MwWriteHeader(r, code) ELSE WrappedWriteHeader(r, code)

Write(r) == IF r.mw.on THEN MwWrite(r) ELSE WrappedWrite(r)

\* app.writeJSON(w, status, data, headers): w.WriteHeader(status); w.Write(js)
writeJSON(r, status) == Write(WriteHeader(r, status))

\* the handler returns to its caller: to metrics if the request came
\* through it, else out of the pipeline
Return(r) == [r EXCEPT !.pc = IF r.mw.on THEN "mt_return" ELSE "done"]

Propagate(r) == [r EXCEPT !.pc = "panic"]

\* a panic unwinds the handlers up to recoverPanic, or out of the pipeline
\* if recoverPanic is not among the callers
Panic(r) ==
  [r EXCEPT !.pc = IF \E k \in 1..Len(chain) : k < r.stage /\ chain[k] = "recoverPanic"
                     THEN "rc_recover" ELSE "panic"]

\* a response with the given status is written and the handler returns, r
\* being the request record with the handler's local state
RespondWith(p, r, code) ==
  req' = [req EXCEPT ![p] = Return(writeJSON(r, code))]

\* app.serverErrorResponse(w, r, err): logError, then the 500 response
serverErrorResponse(p, r) ==
  RespondWith(p, [r EXCEPT !.logged = TRUE], StatusInternalServerError)

Respond(p, code) == RespondWith(p, req[p], code)

(***************************************************************************)
(* golang.org/x/time/rate as used by rateLimit: NewLimiter(rps, burst)     *)
(* starts with a full bucket; Allow() refills for the time elapsed since   *)
(* the last admitted request, up to burst, and takes one token if there is *)
(* one.  A refused Allow() leaves the limiter unchanged.                   *)
(***************************************************************************)
NewLimiterSwapped(r, b, t) ==
  [present |-> TRUE, tokens |-> r, last |-> t, lastSeen |-> 0]

NewLimiter(r, b, t) == [present |-> TRUE, tokens |-> b, last |-> t, lastSeen |-> 0]

Advance(c, t) == Min(config.burst, c.tokens + config.rps * (t - c.last))

AllowOk(c, t) == Advance(c, t) >= 1

AfterAllow(c, t) ==
  IF AllowOk(c, t) THEN [c EXCEPT !.tokens = Advance(c, t) - 1, !.last = t]
                   ELSE c

(***************************************************************************)
(* A client issues a request.                                              *)
(***************************************************************************)
\* (request goroutines and identities are interchangeable: requests are
\* numbered in order of issue and the first one comes from "ipA")
Issue(p) ==
  /\ req[p].pc = "idle"
  /\ \A q \in Reqs : q < p => req[q].pc # "idle"
  /\ \E ip \in (IF p = 1 THEN {"ipA"} ELSE Identities) :
       req' = [req EXCEPT ![p] = [IdleReq EXCEPT !.pc = EntryPc(chain[1]),
                                                 !.stage = 1, !.ip = ip]]
  /\ UNCHANGED <<chain, mtVars, authVars, limVars, srvVars>>

\* the client of request p disconnects: net/http cancels r.Context(); the
\* handlers go on running
ClientDisconnects(p) ==
  /\ req[p].pc \notin {"idle", "done", "panic"}
  /\ ~req[p].cancelled
  /\ req' = [req EXCEPT ![p].cancelled = TRUE]
  /\ UNCHANGED <<chain, mtVars, authVars, limVars, srvVars>>

(***************************************************************************)
(* rateLimit, the request handler (middleware.go 68-87).                   *)
(***************************************************************************)
MutexNeverHeld == TRUE

\* mu.Lock() returns only when no goroutine holds mu
MutexFree == mu = NoOne

RateLimitEnterAlways(p) ==
  /\ req[p].pc = "rl_enter"
  /\ MutexFree
  /\ mu' = p
  /\ req' = [req EXCEPT ![p].pc = "rl_lookup"]
  /\ UNCHANGED <<chain, mtVars, authVars, config, now, clients, sweeper, srvVars>>

\* if app.config.limiter.enabled { ip := r.RemoteAddr; mu.Lock() ... } else next
RateLimitEnter(p) ==
  /\ req[p].pc = "rl_enter"
  /\ IF config.enabled
       THEN /\ MutexFree
            /\ mu' = p
            /\ req' = [req EXCEPT ![p].pc = "rl_lookup"]
       ELSE /\ CallNext(p)
            /\ mu' = mu
  /\ UNCHANGED <<chain, mtVars, authVars, config, now, clients, sweeper, srvVars>>

\* if _, found := clients[ip]; !found {
RateLimitLookup(p) ==
  /\ req[p].pc = "rl_lookup"
  /\ req' = [req EXCEPT ![p].pc =
                IF clients[req[p].ip].present THEN "rl_allow" ELSE "rl_create"]
  /\ UNCHANGED <<chain, mtVars, authVars, limVars, srvVars>>

\* clients[ip] = &client{limiter: rate.NewLimiter(rate.Limit(rps), burst)} }
RateLimitCreate(p) ==
  /\ req[p].pc = "rl_create"
  /\ clients' = [clients EXCEPT ![req[p].ip] =
                    NewLimiter(config.rps, config.burst, now)]
  /\ req' = [req EXCEPT ![p].pc = "rl_allow"]
  /\ UNCHANGED <<chain, mtVars, authVars, config, now, mu, sweeper, srvVars>>

\* clients[ip].lastSeen = time.Now(); if !clients[ip].limiter.Allow() { ... }
\* (the entry is dereferenced afresh: one deleted since the lookup is a nil
\* map value, and the request panics)
RateLimitAllow(p) ==
  /\ req[p].pc = "rl_allow"
  /\ LET ip == req[p].ip
         c  == clients[ip]
     IN IF c.present
          THEN /\ clients' = [clients EXCEPT ![ip] =
                                [AfterAllow(c, now) EXCEPT !.lastSeen = now]]
               /\ req' = [req EXCEPT ![p].pc =
                            IF AllowOk(c, now) THEN "rl_admit" ELSE "rl_reject"]
          ELSE /\ clients' = clients
               /\ req' = [req EXCEPT ![p] = Panic(req[p])]
  /\ UNCHANGED <<chain, mtVars, authVars, config, now, mu, sweeper, srvVars>>

RateLimitRejectNoReturn(p) ==
  /\ req[p].pc = "rl_reject"
  /\ mu' = NoOne
  /\ Forward(p, writeJSON(req[p], StatusTooManyRequests))
  /\ UNCHANGED <<chain, mtVars, authVars, config, now, clients, sweeper, srvVars>>

\* mu.Unlock(); app.rateLimitExceededResponse(w, r); return
RateLimitReject(p) ==
  /\ req[p].pc = "rl_reject"
  /\ mu' = NoOne
  /\ Respond(p, StatusTooManyRequests)
  /\ UNCHANGED <<chain, mtVars, authVars, config, now, clients, sweeper, srvVars>>

RateLimitAdmitLocked(p) ==
  /\ req[p].pc = "rl_admit"
  /\ CallNext(p)
  /\ UNCHANGED <<chain, mtVars, authVars, limVars, srvVars>>

\* mu.Unlock(); next.ServeHTTP(w, r)
RateLimitAdmit(p) ==
  /\ req[p].pc = "rl_admit"
  /\ mu' = NoOne
  /\ CallNext(p)
  /\ UNCHANGED <<chain, mtVars, authVars, config, now, clients, sweeper, srvVars>>

(***************************************************************************)
(* The sweep goroutine of rateLimit (middleware.go 55-66).                 *)
(***************************************************************************)
\* time.Sleep(time.Minute) has returned; mu.Lock()
SweepLock ==
  /\ sweeper = "slept"
  /\ MutexFree
  /\ mu' = Sweeper
  /\ sweeper' = "sweep"
  /\ UNCHANGED <<chain, mtVars, authVars, config, now, clients, req, srvVars>>

IdleAtLimit(c) == c.present /\ now - c.lastSeen >= IdleLimit

Idle(c) == c.present /\ now - c.lastSeen > IdleLimit

\* for ip, client := range clients { if time.Since(client.lastSeen) > 3*time.Minute { delete } }
\* mu.Unlock(); time.Sleep(time.Minute)
SweepRun ==
  /\ sweeper = "sweep"
  /\ clients' = [ip \in Identities |-> IF Idle(clients[ip]) THEN Absent ELSE clients[ip]]
  /\ mu' = NoOne
  /\ sweeper' = "sleep"
  /\ UNCHANGED <<chain, mtVars, authVars, config, now, req, srvVars>>

\* the clock advances by one tick, which ends a sleep of SweepInterval
Tick ==
  /\ now < MaxTime
  /\ now' = now + SweepInterval
  /\ sweeper' = IF sweeper = "sleep" THEN "slept" ELSE sweeper
  /\ UNCHANGED <<chain, mtVars, authVars, config, mu, clients, req, srvVars>>

(***************************************************************************)
(* The final handler behind the chain (the router or a test handler).      *)
(***************************************************************************)
FinalHandler(p) ==
  /\ req[p].pc = "final"
  /\ RespondWith(p, [req[p] EXCEPT !.nextCalls = @ + 1], StatusOK)
  /\ UNCHANGED <<chain, mtVars, authVars, limVars, srvVars>>

(***************************************************************************)
(* Header values.  A header is a sequence of atoms: the space character or *)
(* a word (a non-empty string without a space).  Distinct words are        *)
(* distinct strings that share no characters, so two headers are the same  *)
(* string exactly if they are the same sequence of atoms; adjacent words   *)
(* form one longer string.                                                 *)
(***************************************************************************)
SP       == " "
Words    == {"Bearer", "tokA", "tokB", "t21", "c"}
HdrAtoms == {SP, "Bearer", "tokA", "t21", "c"}

\* len(w) in bytes
WordLen(w) ==
  CASE w = "Bearer" -> 6
    [] w = "tokA"   -> TokenLen
    [] w = "tokB"   -> TokenLen
    [] w = "t21"    -> TokenLen - 1
    [] w = "c"      -> 1

RECURSIVE ByteLen(_)
ByteLen(s) == IF s = <<>> THEN 0 ELSE WordLen(Head(s)) + ByteLen(Tail(s))

Headers == UNION {[1..n -> HdrAtoms] : n \in 0..MaxHdrLen}

\* strings.Split(h, " "): the substrings between the spaces, empty ones
\* included; one (empty) part for the empty string
RECURSIVE Split(_)
Split(h) ==
  IF h = <<>> THEN << <<>> >>
  ELSE LET rest == Split(Tail(h))
       IN IF Head(h) = SP THEN << <<>> >> \o rest
                          ELSE << <<Head(h)>> \o rest[1] >> \o Tail(rest)

Bearer == <<"Bearer">>

BearerHeader(pt) == <<"Bearer", SP>> \o pt

(***************************************************************************)
(* The store (internal/data): tokens, users and users_permissions.         *)
(***************************************************************************)
ScopeActivation     == "activation"
ScopeAuthentication == "authentication"
Scopes == {ScopeActivation, ScopeAuthentication}

Codes     == {"users:view", "users:update"}
RouteCode == "users:view"     \* the code a guarded route requires

\* the code of the route of the chain: requirePermissions("users:update") in
\* front of updateUserHandler (routes(), PUT /v1/user/:id), "users:view" elsewhere
RequiredCode ==
  IF chain # <<>> /\ chain[Len(chain)] = "updateUser" THEN "users:update"
                                                        ELSE RouteCode

\* sha256.Sum256([]byte(plaintext)): deterministic, and injective on the
\* strings of the model
Sha256(pt) == <<"sha256", pt>>

TokenAlwaysValid(pt) == TRUE

\* v.Check(plaintext != "", ...); v.Check(len(plaintext) == 22, ...)
ValidateTokenPlaintext(pt) == pt # <<>> /\ ByteLen(pt) = TokenLen

ExpiresNotBefore(t, at) == t.expires >= at

\* AND tokens.expires_at > $3
ExpiresAfter(t, at) == t.expires > at

\* what a database call can meet: no failure, the query failing, or the
\* iteration over the result rows breaking off (connection lost, or the 3 s
\* deadline of the call's context passing)
QueryFaults == {"none", "query"}
RowsFaults  == {"none", "query", "rows"}

\* UserModel.GetForToken(tokenScope, tokenPlaintext) at time `at`; Row.Scan
\* reports any failure of the query as an error
GetForToken(tokenScope, tokenPlaintext, at, fault) ==
  LET rows == {t \in tokens : /\ t.scope = tokenScope
                              /\ t.hash = Sha256(tokenPlaintext)
                              /\ ExpiresAfter(t, at)}
  IN IF fault # "none" THEN [err |-> "other", user |-> NoUser]
     ELSE IF rows = {} THEN [err |-> "ErrRecordNotFound", user |-> NoUser]
     ELSE LET t == CHOOSE t \in rows : TRUE
          IN [err |-> "nil",
              user |-> [kind |-> "user", id |-> t.user,
                        active |-> users[t.user].active]]

(***************************************************************************)
(* TokenModel (internal/data/tokens.go).                                   *)
(***************************************************************************)
NoToken == [user |-> 0, scope |-> "", expires |-> 0, revoked |-> FALSE]

NothingIssued == [ip \in Identities |-> NoToken]

\* base64.RawURLEncoding.EncodedLen(n): 6 bits per character, no padding
EncodedLen(n) == (n * 8 + 5) \div 6

\* the strings a plaintext is drawn from
Plaintexts == {<<"tokA">>, <<"t21">>}

\* base64.RawURLEncoding.EncodeToString(randomBytes) for 16 bytes read from
\* crypto/rand: a string of the encoded length that no stored token has
generateToken(userID, ttl, scope) ==
  {[plaintext |-> pt, hash |-> Sha256(pt), user |-> userID,
    expires |-> now + ttl, scope |-> scope] :
     pt \in {s \in Plaintexts : /\ ByteLen(s) = EncodedLen(RandomBytes)
                                 /\ \A t \in tokens : t.hash # Sha256(s)}}

\* INSERT INTO tokens (hash, user_id, expires_at, scope) VALUES (...)
Insert(token) ==
  tokens \cup {[hash |-> token.hash, scope |-> token.scope,
                 user |-> token.user, expires |-> token.expires]}

WhereNothing(t, scope, userID) == FALSE

\* WHERE scope = $1 AND user_id = $2
WhereScopeAndUser(t, scope, userID) == t.scope = scope /\ t.user = userID

\* Tokens.New(userID, ttl, scope), the plaintext being handed to client ip,
\* which presents it from now on
New(ip, userID, ttl, scope) ==
  /\ \A p \in Reqs : req[p].ip = ip => req[p].pc \in {"idle", "done"}
  /\ \E token \in generateToken(userID, ttl, scope) :
       /\ tokens' = Insert(token)
       /\ authz' = [authz EXCEPT ![ip] = BearerHeader(token.plaintext)]
       /\ issued' = [issued EXCEPT ![ip] =
                       [user |-> userID, scope |-> scope,
                        expires |-> token.expires, revoked |-> FALSE]]
  /\ UNCHANGED <<chain, mtVars, limVars, req, srvVars, users, permissions, cors>>

\* Tokens.DeleteAllForUser(scope, userID)
DeleteAllForUser(scope, userID) ==
  /\ tokens' = {t \in tokens : ~WhereScopeAndUser(t, scope, userID)}
  /\ issued' = [ip \in Identities |->
                  IF issued[ip].scope = scope /\ issued[ip].user = userID
                    THEN [issued[ip] EXCEPT !.revoked = TRUE]
                    ELSE issued[ip]]
  /\ UNCHANGED <<chain, mtVars, limVars, req, srvVars, authz, users, permissions, cors>>

\* the results PermissionModel.GetAllForUser(user_id) can return: an error
\* if the query or a Scan fails; otherwise the codes of the rows that
\* rows.Next() delivered, which are all rows of the user unless the iteration
\* broke off (rows.Err() is not consulted after the loop)
GetAllForUser(user_id, fault) ==
  LET all == IF user_id \in UserIds THEN permissions[user_id] ELSE {}
  IN CASE fault = "none"  -> {[err |-> "nil", perms |-> all]}
       [] fault = "query" -> {[err |-> "other", perms |-> {}]}
       [] fault = "rows"  -> {[err |-> "nil", perms |-> S] : S \in SUBSET all}

\* Permissions.Includes(code)
Includes(perms, code) == code \in perms

\* PermissionModel.AssignPermissions(userID, codes): one INSERT, which fails
\* as a whole on a row that exists already (primary key user_id, permission_id)
AssignPermissions(userID, codes) ==
  /\ permissions' = IF codes \cap permissions[userID] = {}
                      THEN [permissions EXCEPT ![userID] = @ \cup codes]
                      ELSE permissions
  /\ UNCHANGED <<chain, mtVars, limVars, req, srvVars, authz, tokens, users, issued, cors>>

\* PermissionModel.ClearPermissions(userID)
ClearPermissions(userID) ==
  /\ permissions' = [permissions EXCEPT ![userID] = {}]
  /\ UNCHANGED <<chain, mtVars, limVars, req, srvVars, authz, tokens, users, issued, cors>>

(***************************************************************************)
(* authenticate (middleware.go 125-171).                                   *)
(***************************************************************************)
\* r.Header.Get("Authorization")
AuthorizationHeader(p) == authz[req[p].ip]

contextDropUser(r, user) == r

contextSetAnonymous(r, user) == [r EXCEPT !.user = AnonymousUser]

contextSetUser(r, user) == [r EXCEPT !.user = user]

\* the header is examined: empty -> anonymous; not "Bearer <token>" or a
\* token of the wrong form -> 401; otherwise on to the lookup
Authenticate(p) ==
  /\ req[p].pc = "au_enter"
  /\ LET authorizationHeader == AuthorizationHeader(p)
         headerParts == Split(authorizationHeader)
     IN IF authorizationHeader = <<>>
          THEN Forward(p, contextSetUser(req[p], AnonymousUser))
        ELSE IF Len(headerParts) # 2 \/ headerParts[1] # Bearer
          THEN Respond(p, StatusUnauthorized)
        ELSE IF ~ValidateTokenPlaintext(headerParts[2])
          THEN Respond(p, StatusUnauthorized)
        ELSE req' = [req EXCEPT ![p].pc = "au_lookup"]
  /\ UNCHANGED <<chain, mtVars, authVars, limVars, srvVars>>

AnyError(err) == TRUE

\* errors.Is(err, data.ErrRecordNotFound)
IsRecordNotFound(err) == err = "ErrRecordNotFound"

\* user, err := app.models.Users.GetForToken(data.ScopeAuthentication, token)
\* and what follows it
AuthenticateLookup(p) ==
  /\ req[p].pc = "au_lookup"
  /\ \E fault \in QueryFaults :
       LET tokenPlaintext == Split(AuthorizationHeader(p))[2]
           got == GetForToken(ScopeAuthentication, tokenPlaintext, now, fault)
           r   == [req[p] EXCEPT !.lookups = @ + 1, !.err = got.err]
       IN IF got.err # "nil"
            THEN IF IsRecordNotFound(got.err)
                   THEN RespondWith(p, r, StatusUnauthorized)
                   ELSE serverErrorResponse(p, r)
            ELSE Forward(p, contextSetUser(r, got.user))
  /\ UNCHANGED <<chain, mtVars, authVars, limVars, srvVars>>

(***************************************************************************)
(* The guards (middleware.go 174-226).  requirePermissions(code)(h) is     *)
(* requireAuthenticatedUser(requireActivatedUser(fn)), fn being the stage  *)
(* "requirePermissions" of the chain.                                      *)
(***************************************************************************)
NeverAnonymous(user) == FALSE

\* func (u *User) IsAnonymous() bool { return u == AnonymousUser }
IsAnonymous(user) == user.kind = "anonymous"

\* contextGetUser panics if the context holds no user value
MissingUser(p) == req[p].user.kind = "none"

RequireAuthenticatedUser(p) ==
  /\ req[p].pc = "ra_enter"
  /\ IF MissingUser(p) THEN req' = [req EXCEPT ![p] = Panic(req[p])]
     ELSE IF IsAnonymous(req[p].user) THEN Respond(p, StatusUnauthorized)
     ELSE CallNext(p)
  /\ UNCHANGED <<chain, mtVars, authVars, limVars, srvVars>>

RequireActivatedUser(p) ==
  /\ req[p].pc = "rv_enter"
  /\ IF MissingUser(p) THEN req' = [req EXCEPT ![p] = Panic(req[p])]
     ELSE IF ~req[p].user.active THEN Respond(p, StatusForbidden)
     ELSE CallNext(p)
  /\ UNCHANGED <<chain, mtVars, authVars, limVars, srvVars>>

\* hasPermissions, err := app.models.Permissions.GetAllForUser(user.ID) and
\* what follows it
RequirePermissions(p) ==
  /\ req[p].pc = "rp_enter"
  /\ IF MissingUser(p) THEN req' = [req EXCEPT ![p] = Panic(req[p])]
     ELSE \E fault \in RowsFaults :
          \E got \in GetAllForUser(req[p].user.id, fault) :
            LET r == [req[p] EXCEPT !.permLookups = @ + 1, !.err = got.err]
            IN IF got.err # "nil"
                 THEN serverErrorResponse(p, r)
               ELSE IF ~Includes(got.perms, RequiredCode)
                 THEN RespondWith(p, r, StatusForbidden)
               ELSE Forward(p, r)
  /\ UNCHANGED <<chain, mtVars, authVars, limVars, srvVars>>

(***************************************************************************)
(* recoverPanic (middleware.go 24-35).                                     *)
(***************************************************************************)
\* defer func() { ... }(); next.ServeHTTP(w, r)
RecoverPanic(p) ==
  /\ req[p].pc = "rc_enter"
  /\ CallNext(p)
  /\ UNCHANGED <<chain, mtVars, authVars, limVars, srvVars>>

\* the deferred function after a panic beneath: w.Header().Set("Connection",
\* "close"), which reaches the client only if the header has not been sent
\* yet, then app.serverErrorResponse on w, the writer recoverPanic was given
RecoverPanicDeferred(p) ==
  /\ req[p].pc = "rc_recover"
  /\ serverErrorResponse(p, [req[p] EXCEPT !.mw.on = FALSE,
                                            !.recovered = TRUE,
                                            !.connClose = (req[p].status = 0)])
  /\ UNCHANGED <<chain, mtVars, authVars, limVars, srvVars>>

(***************************************************************************)
(* enableCORS (middleware.go 94-118).                                      *)
(***************************************************************************)
\* app.config.cors.trustedOrigins
trustedOrigins == {"http://localhost:3000"}

NeverPreflight(c) == FALSE

\* r.Method == http.MethodOptions &&
\* r.Header.Get("Access-Control-Request-Method") != ""
IsPreflight(c) == c.method = "OPTIONS" /\ c.acrm

\* what clients send: plain requests, CORS requests and preflight requests
CorsRequests ==
  {SameOrigin,
   [method |-> "GET",     origin |-> "http://localhost:3000", acrm |-> FALSE],
   [method |-> "OPTIONS", origin |-> "http://localhost:3000", acrm |-> FALSE],
   [method |-> "OPTIONS", origin |-> "http://localhost:3000", acrm |-> TRUE],
   [method |-> "OPTIONS", origin |-> "http://evil.com",       acrm |-> TRUE]}

\* a trusted origin with OPTIONS and Access-Control-Request-Method is
\* answered with w.WriteHeader(200); every other request goes to next
EnableCORS(p) ==
  /\ req[p].pc = "co_enter"
  /\ LET c == cors[req[p].ip]
     IN IF /\ c.origin # ""
           /\ c.origin \in trustedOrigins
           /\ IsPreflight(c)
          THEN req' = [req EXCEPT ![p] = Return(WriteHeader(req[p], StatusOK))]
          ELSE CallNext(p)
  /\ UNCHANGED <<chain, mtVars, authVars, limVars, srvVars>>

(***************************************************************************)
(* Handlers behind the router (routes.go 17-56).                           *)
(***************************************************************************)
\* showCurrentUserHandler: user := app.contextGetUser(r); writeJSON(200)
ShowCurrentUserHandler(p) ==
  /\ req[p].pc = "sc_enter"
  /\ IF MissingUser(p) THEN req' = [req EXCEPT ![p] = Panic(req[p])]
     ELSE RespondWith(p, [req[p] EXCEPT !.nextCalls = @ + 1], StatusOK)
  /\ UNCHANGED <<chain, mtVars, authVars, limVars, srvVars>>

\* router.NotFound: app.notFoundResponse
NotFoundResponse(p) ==
  /\ req[p].pc = "nf_enter"
  /\ RespondWith(p, [req[p] EXCEPT !.nextCalls = @ + 1], StatusNotFound)
  /\ UNCHANGED <<chain, mtVars, authVars, limVars, srvVars>>

(***************************************************************************)
(* activateUserHandler (users.go 142-194), PUT /v1/users/activate.         *)
(***************************************************************************)
\* the request bodies: not JSON, or {"token": ...} with a token that is
\* empty, 21 bytes long, or 22 bytes long
ActivateBodies ==
  {[json |-> FALSE, token |-> <<>>]} \cup
  {[json |-> TRUE, token |-> t] : t \in {<<>>, <<"t21">>, <<"tokA">>, <<"tokB">>}}

\* errors.Is(err, data.ErrNoRecords)
IsNoRecords(err) == err = "ErrNoRecords"

\* app.readJSON(w, r, &ActivateUserPayload); data.ValidateTokenPlaintext
ActivateUser(p) ==
  /\ req[p].pc = "av_enter"
  /\ \E body \in ActivateBodies :
       LET r == [req[p] EXCEPT !.token = body.token, !.nextCalls = @ + 1]
       IN IF ~body.json
            THEN RespondWith(p, [r EXCEPT !.err = "json"], StatusBadRequest)
          ELSE IF ~ValidateTokenPlaintext(body.token)
            THEN RespondWith(p, r, StatusUnprocessableEntity)
          ELSE req' = [req EXCEPT ![p] = [r EXCEPT !.pc = "av_lookup"]]
  /\ UNCHANGED <<chain, mtVars, authVars, limVars, srvVars>>

\* user, err := app.models.Users.GetForToken(data.ScopeActivation, token)
\* and the switch on err
ActivateUserLookup(p) ==
  /\ req[p].pc = "av_lookup"
  /\ \E fault \in QueryFaults :
       LET got == GetForToken(ScopeActivation, req[p].token, now, fault)
           r   == [req[p] EXCEPT !.lookups = @ + 1, !.err = got.err]
       IN IF got.err # "nil"
            THEN IF IsNoRecords(got.err)
                   THEN RespondWith(p, r, StatusUnprocessableEntity)
                   ELSE serverErrorResponse(p, r)
            ELSE req' = [req EXCEPT ![p] = [r EXCEPT !.pc = "av_update",
                                                     !.target = got.user]]
  /\ UNCHANGED <<chain, mtVars, authVars, limVars, srvVars>>

\* user.IsActive = true; Users.Update(user); Tokens.DeleteAllForUser(
\* data.ScopeActivation, user.ID); writeJSON(200); either store call may fail
ActivateUserUpdate(p) ==
  /\ req[p].pc = "av_update"
  /\ LET id == req[p].target.id
     IN \E fault \in {"none", "update", "delete"} :
          /\ users' = IF fault = "update" THEN users
                      ELSE [users EXCEPT ![id].active = TRUE]
          /\ tokens' = IF fault = "none"
                         THEN {t \in tokens : ~WhereScopeAndUser(t, ScopeActivation, id)}
                         ELSE tokens
          /\ IF fault = "none"
               THEN Respond(p, StatusOK)
               ELSE serverErrorResponse(p, [req[p] EXCEPT !.err = "other"])
  /\ UNCHANGED <<chain, mtVars, limVars, srvVars, authz, permissions, issued, cors>>

(***************************************************************************)
(* updateUserHandler (users.go 296-416), PUT /v1/users/profile/:id and     *)
(* PUT /v1/user/:id.  The role of a user is modelled by the permission set *)
(* that the handler assigns for it.                                        *)
(***************************************************************************)
\* the request bodies: not JSON, data that fails ValidateUser, or valid
\* data that sets role and is_active or leaves them out
UpdateBodies ==
  {[json |-> FALSE, valid |-> FALSE, role |-> "unset", is_active |-> "unset"],
   [json |-> TRUE,  valid |-> FALSE, role |-> "unset", is_active |-> "unset"],
   [json |-> TRUE,  valid |-> TRUE,  role |-> "unset", is_active |-> "unset"],
   [json |-> TRUE,  valid |-> TRUE,  role |-> "admin", is_active |-> "unset"],
   [json |-> TRUE,  valid |-> TRUE,  role |-> "guest", is_active |-> "false"],
   [json |-> TRUE,  valid |-> TRUE,  role |-> "unset", is_active |-> "true"]}

\* switch user.Role { case "admin": ... case "cashier": ... default: ... },
\* restricted to the codes of the model
RolePermissions(role) ==
  CASE role = "admin"   -> {"users:view", "users:update"}
    [] role = "cashier" -> {"users:view"}
    [] OTHER            -> {}

\* the :id of the URL (0: no user has it)
IdParams == {0} \cup UserIds

\* the whole handler: readIDParam, Users.GetByID, readJSON, ValidateUser,
\* Users.Update and, if the body has a role, Permissions.ClearPermissions
\* and Permissions.AssignPermissions; any of the store calls may fail.
\* After ErrDuplicateEmail the handler answers 422 and goes on to the
\* permissions (no return in that case of the switch)
UpdateUserHandler(p) ==
  /\ req[p].pc = "uu_enter"
  /\ \E id \in IdParams, body \in UpdateBodies,
        fault \in {"none", "get", "duplicate", "update", "clear", "assign"} :
       LET r == [req[p] EXCEPT !.nextCalls = @ + 1,
                               !.target = [kind |-> "user", id |-> id, active |-> FALSE]]
           written == fault \notin {"get", "update"} /\ body.json /\ body.valid
                       /\ id \in UserIds
       IN /\ users' = IF written /\ fault # "duplicate" /\ body.is_active # "unset"
                         THEN [users EXCEPT ![id].active = (body.is_active = "true")]
                         ELSE users
          /\ permissions' =
               IF ~written \/ body.role = "unset" \/ fault = "clear" THEN permissions
               ELSE IF fault = "assign" THEN [permissions EXCEPT ![id] = {}]
               ELSE [permissions EXCEPT ![id] = RolePermissions(body.role)]
          /\ IF id \notin UserIds THEN RespondWith(p, r, StatusNotFound)
             ELSE IF fault = "get" THEN serverErrorResponse(p, [r EXCEPT !.err = "other"])
             ELSE IF ~body.json THEN RespondWith(p, [r EXCEPT !.err = "json"], StatusBadRequest)
             ELSE IF ~body.valid \/ fault = "duplicate"
               THEN RespondWith(p, r, StatusUnprocessableEntity)
             ELSE IF fault = "update" \/ (fault # "none" /\ body.role # "unset")
               THEN serverErrorResponse(p, [r EXCEPT !.err = "other"])
             ELSE RespondWith(p, r, StatusOK)
  /\ UNCHANGED <<chain, mtVars, limVars, srvVars, authz, tokens, issued, cors>>

(***************************************************************************)
(* metrics (middleware.go 270-289).  The expvar counters are updated with  *)
(* atomic adds.                                                            *)
(***************************************************************************)
StatusCodes == {StatusOK, StatusBadRequest, StatusUnauthorized, StatusForbidden,
                StatusNotFound, StatusUnprocessableEntity,
                StatusTooManyRequests, StatusInternalServerError}

AddLost(v, delta) == v

\* (*expvar.Int).Add(delta), (*expvar.Map).Add(key, delta)
Add(v, delta) == v + delta

\* totalRequestsReceived.Add(1); mw := newMetricsResponseWriter(w);
\* next.ServeHTTP(mw, r)
MetricsEnter(p) ==
  /\ req[p].pc = "mt_enter"
  /\ totalRequestsReceived' = Add(totalRequestsReceived, 1)
  /\ Forward(p, [req[p] EXCEPT !.mw = newMetricsResponseWriter])
  /\ UNCHANGED <<chain, authVars, limVars, srvVars, totalResponsesSent,
                 totalResponsesSentByStatus, published>>

\* next.ServeHTTP has returned: totalResponsesSent.Add(1)
MetricsSent(p) ==
  /\ req[p].pc = "mt_return"
  /\ totalResponsesSent' = Add(totalResponsesSent, 1)
  /\ req' = [req EXCEPT ![p].pc = "mt_status"]
  /\ UNCHANGED <<chain, authVars, limVars, srvVars, totalRequestsReceived,
                 totalResponsesSentByStatus, published>>

\* totalResponsesSentByStatus.Add(strconv.Itoa(mw.statusCode), 1); return
MetricsByStatus(p) ==
  /\ req[p].pc = "mt_status"
  /\ totalResponsesSentByStatus' =
       [totalResponsesSentByStatus EXCEPT ![req[p].mw.statusCode] = Add(@, 1)]
  /\ req' = [req EXCEPT ![p].pc = "done", ![p].mw.on = FALSE]
  /\ UNCHANGED <<chain, authVars, limVars, srvVars, totalRequestsReceived,
                 totalResponsesSent, published>>

(***************************************************************************)
(* The stage "handler": any http.Handler at the end of a chain.  It may    *)
(* call WriteHeader and Write on its writer any number of times, and it    *)
(* returns or panics.                                                      *)
(***************************************************************************)
HandlerCodes == {StatusOK, StatusNotFound}

\* ServeHTTP(w, r) of the handler is entered
ServeHTTP(p) ==
  /\ req[p].pc = "h_enter"
  /\ req' = [req EXCEPT ![p].pc = "h_run", ![p].nextCalls = @ + 1]
  /\ UNCHANGED <<chain, mtVars, authVars, limVars, srvVars>>

\* w.WriteHeader(code)
ServeWriteHeader(p, code) ==
  /\ req[p].pc = "h_run"
  /\ req' = [req EXCEPT ![p] = [WriteHeader(req[p], code) EXCEPT
                                  !.call = [op |-> "WriteHeader", code |-> code]]]
  /\ UNCHANGED <<chain, mtVars, authVars, limVars, srvVars>>

\* w.Write(b)
ServeWrite(p) ==
  /\ req[p].pc = "h_run"
  /\ req' = [req EXCEPT ![p] = [Write(req[p]) EXCEPT
                                  !.call = [op |-> "Write", code |-> 0]]]
  /\ UNCHANGED <<chain, mtVars, authVars, limVars, srvVars>>

ServeReturn(p) ==
  /\ req[p].pc = "h_run"
  /\ req' = [req EXCEPT ![p] = Return(req[p])]
  /\ UNCHANGED <<chain, mtVars, authVars, limVars, srvVars>>

\* panic(v) inside the handler
ServePanic(p) ==
  /\ req[p].pc = "h_run"
  /\ req' = [req EXCEPT ![p] = Panic(req[p])]
  /\ UNCHANGED <<chain, mtVars, authVars, limVars, srvVars>>

(***************************************************************************)
(* app.background (helpers.go 466-481): the WaitGroup and the goroutine    *)
(* wrapped around fn.                                                      *)
(***************************************************************************)
ProcessUp == mainPc # "exited" /\ ~crashed

Outstanding ==
  {t \in Tasks : task[t] \in {"added", "running", "panicking", "returned", "recovered"}}

FreeTask == CHOOSE t \in Tasks : task[t] = "none" /\ \A u \in Tasks : u < t => task[u] # "none"

\* app.wg.Add(1), synchronously in the caller of background
BackgroundAdd(c) ==
  /\ ProcessUp
  /\ conn[c] = "handling"
  /\ \E t \in Tasks : task[t] = "none"
  /\ wg' = wg + 1
  /\ task' = [task EXCEPT ![FreeTask] = "added"]
  /\ conn' = [conn EXCEPT ![c] = "go"]
  /\ UNCHANGED <<chain, mtVars, authVars, limVars, req, srv, mainPc, result, sigPc, sdErr, grace, crashed, atSignal>>

\* go func() { defer app.wg.Done(); defer func() { recover() ... }(); fn() }()
BackgroundGo(c) ==
  /\ ProcessUp
  /\ conn[c] = "go"
  /\ \E t \in Tasks :
       /\ task[t] = "added"
       /\ task' = [task EXCEPT ![t] = "running"]
  /\ conn' = [conn EXCEPT ![c] = "respond"]
  /\ UNCHANGED <<chain, mtVars, authVars, limVars, req, srv, mainPc, result, sigPc, sdErr, grace, wg, crashed, atSignal>>

\* fn() returns
TaskReturns(t) ==
  /\ ProcessUp
  /\ task[t] = "running"
  /\ task' = [task EXCEPT ![t] = "returned"]
  /\ UNCHANGED <<chain, mtVars, authVars, limVars, req, srv, mainPc, result, sigPc, sdErr, grace, conn, wg, crashed, atSignal>>

\* fn() panics
TaskPanics(t) ==
  /\ ProcessUp
  /\ task[t] = "running"
  /\ task' = [task EXCEPT ![t] = "panicking"]
  /\ UNCHANGED <<chain, mtVars, authVars, limVars, req, srv, mainPc, result, sigPc, sdErr, grace, conn, wg, crashed, atSignal>>

\* the panic leaves the goroutine: the Go runtime ends the process
TaskRecoverMissing(t) ==
  /\ ProcessUp
  /\ task[t] = "panicking"
  /\ crashed' = TRUE
  /\ UNCHANGED <<chain, mtVars, authVars, limVars, req, srv, mainPc, result, sigPc, sdErr, grace, conn, wg, task, atSignal>>

\* defer func() { if err := recover(); err != nil { app.logger.Error(...) } }()
TaskRecover(t) ==
  /\ ProcessUp
  /\ task[t] = "panicking"
  /\ task' = [task EXCEPT ![t] = "recovered"]
  /\ UNCHANGED <<chain, mtVars, authVars, limVars, req, srv, mainPc, result, sigPc, sdErr, grace, conn, wg, crashed, atSignal>>

\* defer app.wg.Done()
TaskDone(t) ==
  /\ ProcessUp
  /\ task[t] \in {"returned", "recovered"}
  /\ wg' = wg - 1
  /\ task' = [task EXCEPT ![t] = IF task[t] = "recovered" THEN "survived" ELSE "finished"]
  /\ UNCHANGED <<chain, mtVars, authVars, limVars, req, srv, mainPc, result, sigPc, sdErr, grace, conn, crashed, atSignal>>

(***************************************************************************)
(* The connections of the http.Server.  A handler may register one         *)
(* background task (registerUserHandler, users.go 115-130).                *)
(***************************************************************************)
\* a connection is accepted although the listener has been closed
AcceptWhileClosed(c) ==
  /\ ProcessUp
  /\ srv.listener # "none"
  /\ conn[c] = "none"
  /\ conn' = [conn EXCEPT ![c] = "handling"]
  /\ UNCHANGED <<chain, mtVars, authVars, limVars, req, srv, mainPc, result, sigPc, sdErr, grace, wg, task, crashed, atSignal>>

\* the Serve loop accepts a connection and starts its handler
Accept(c) ==
  /\ ProcessUp
  /\ srv.listener = "open"
  /\ conn[c] = "none"
  /\ \A d \in Conns : d < c => conn[d] # "none"
  /\ conn' = [conn EXCEPT ![c] = "handling"]
  /\ UNCHANGED <<chain, mtVars, authVars, limVars, req, srv, mainPc, result, sigPc, sdErr, grace, wg, task, crashed, atSignal>>

\* if app.mailer != nil && token != nil { ... } is skipped
HandlerNoBackground(c) ==
  /\ ProcessUp
  /\ conn[c] = "handling"
  /\ conn' = [conn EXCEPT ![c] = "respond"]
  /\ UNCHANGED <<chain, mtVars, authVars, limVars, req, srv, mainPc, result, sigPc, sdErr, grace, wg, task, crashed, atSignal>>

\* the handler writes its response and returns: the connection is idle
HandlerReturns(c) ==
  /\ ProcessUp
  /\ conn[c] = "respond"
  /\ conn' = [conn EXCEPT ![c] = "idle"]
  /\ UNCHANGED <<chain, mtVars, authVars, limVars, req, srv, mainPc, result, sigPc, sdErr, grace, wg, task, crashed, atSignal>>

ActiveConns == {c \in Conns : conn[c] \in {"handling", "go", "respond"}}

(***************************************************************************)
(* serve() (server.go 779-827): the calling goroutine.                     *)
(***************************************************************************)
\* srv.ListenAndServe(): the listener is opened, unless Shutdown was called
\* before (ErrServerClosed at once) or net.Listen fails
MainListen ==
  /\ ProcessUp
  /\ mainPc = "start"
  /\ \/ /\ srv.inShutdown
        /\ mainPc' = "recv"
        /\ UNCHANGED <<srv, result>>
     \/ /\ ~srv.inShutdown
        /\ srv' = [srv EXCEPT !.listener = "open"]
        /\ mainPc' = "serving"
        /\ UNCHANGED result
     \/ /\ ~srv.inShutdown
        /\ mainPc' = "returned"
        /\ result' = "err"
        /\ UNCHANGED srv
  /\ UNCHANGED <<chain, mtVars, authVars, limVars, req, sigPc, sdErr, grace, conn, wg, task, crashed, atSignal>>

\* ListenAndServe returns http.ErrServerClosed once Shutdown has been called
MainServeReturns ==
  /\ ProcessUp
  /\ mainPc = "serving"
  /\ srv.inShutdown
  /\ mainPc' = "recv"
  /\ UNCHANGED <<chain, mtVars, authVars, limVars, req, srv, result, sigPc, sdErr, grace, conn, wg, task, crashed, atSignal>>

\* main(): serve() has returned; os.Exit(1) or return from main
ProcessExit ==
  /\ ProcessUp
  /\ mainPc = "returned"
  /\ mainPc' = "exited"
  /\ UNCHANGED <<chain, mtVars, authVars, limVars, req, srv, result, sigPc, sdErr, grace, conn, wg, task, crashed, atSignal>>

(***************************************************************************)
(* serve(): the signal-handling goroutine.                                 *)
(***************************************************************************)
\* sig := <-quit
Signal ==
  /\ ProcessUp
  /\ sigPc = "wait"
  /\ sigPc' = "signalled"
  /\ atSignal' = Outstanding
  /\ UNCHANGED <<chain, mtVars, authVars, limVars, req, srv, mainPc, result, sdErr, grace, conn, wg, task, crashed>>

\* ctx, cancel := context.WithTimeout(..., 30*time.Second); srv.Shutdown(ctx)
\* is entered: the server is marked as shutting down and its listener closed
ShutdownBegin ==
  /\ ProcessUp
  /\ sigPc = "signalled"
  /\ srv' = [inShutdown |-> TRUE,
             listener |-> IF srv.listener = "open" THEN "closed" ELSE srv.listener]
  /\ grace' = "running"
  /\ sigPc' = "poll"
  /\ UNCHANGED <<chain, mtVars, authVars, limVars, req, mainPc, result, sdErr, conn, wg, task, crashed, atSignal>>

\* the 30 s of ctx elapse ("late": with a handler or a task still running)
GraceElapses ==
  /\ ProcessUp
  /\ grace = "running"
  /\ grace' = IF ActiveConns # {} \/ Outstanding # {} THEN "late" ELSE "intime"
  /\ UNCHANGED <<chain, mtVars, authVars, limVars, req, srv, mainPc, result, sigPc, sdErr, conn, wg, task, crashed, atSignal>>

ShutdownPollEarly ==
  /\ ProcessUp
  /\ sigPc = "poll"
  /\ sigPc' = "wg_wait"
  /\ sdErr' = "nil"
  /\ UNCHANGED <<chain, mtVars, authVars, limVars, req, srv, mainPc, result, grace, conn, wg, task, crashed, atSignal>>

\* Shutdown polls: with every connection idle it returns nil
ShutdownPoll ==
  /\ ProcessUp
  /\ sigPc = "poll"
  /\ sigPc' = IF ActiveConns = {} THEN "wg_wait" ELSE "sd_wait"
  /\ sdErr' = IF ActiveConns = {} THEN "nil" ELSE sdErr
  /\ UNCHANGED <<chain, mtVars, authVars, limVars, req, srv, mainPc, result, grace, conn, wg, task, crashed, atSignal>>

\* Shutdown waits: select { case <-ctx.Done(): return ctx.Err(); case <-timer.C: }
ShutdownWait ==
  /\ ProcessUp
  /\ sigPc = "sd_wait"
  /\ \/ grace \in {"late", "intime"} /\ sigPc' = "send_err" /\ sdErr' = "deadline"
     \/ sigPc' = "poll" /\ sdErr' = sdErr
  /\ UNCHANGED <<chain, mtVars, authVars, limVars, req, srv, mainPc, result, grace, conn, wg, task, crashed, atSignal>>

\* if err != nil { shutdown <- err }, received by  err = <-shutdown; return err
SendShutdownError ==
  /\ ProcessUp
  /\ sigPc = "send_err"
  /\ mainPc = "recv"
  /\ sigPc' = "wg_wait"
  /\ mainPc' = "returned"
  /\ result' = "err"
  /\ UNCHANGED <<chain, mtVars, authVars, limVars, req, srv, sdErr, grace, conn, wg, task, crashed, atSignal>>

WaitSkipped == TRUE

\* app.wg.Wait() returns when the counter is zero
WaitGroupZero == wg = 0

WgWait ==
  /\ ProcessUp
  /\ sigPc = "wg_wait"
  /\ WaitGroupZero
  /\ sigPc' = "send_nil"
  /\ UNCHANGED <<chain, mtVars, authVars, limVars, req, srv, mainPc, result, sdErr, grace, conn, wg, task, crashed, atSignal>>

\* shutdown <- nil, received by  err = <-shutdown; ...; return nil
SendShutdownNil ==
  /\ ProcessUp
  /\ sigPc = "send_nil"
  /\ mainPc = "recv"
  /\ sigPc' = "exit"
  /\ mainPc' = "returned"
  /\ result' = "nil"
  /\ UNCHANGED <<chain, mtVars, authVars, limVars, req, srv, sdErr, grace, conn, wg, task, crashed, atSignal>>

ServerNotStarted ==
  /\ srv = [listener |-> "none", inShutdown |-> FALSE]
  /\ mainPc = "start"
  /\ result = "none"
  /\ sigPc = "wait"
  /\ sdErr = "pending"
  /\ grace = "unset"
  /\ conn = [c \in Conns |-> "none"]
  /\ wg = 0
  /\ task = [t \in Tasks |-> "none"]
  /\ crashed = FALSE
  /\ atSignal = {}

\* the names metrics() publishes: expvar.NewMap(name), expvar.NewInt(name)
MetricNames == {"total_responses_sent_by_status", "total_requests_received",
                "total_responses_sent", "total_processing_time_microseconds"}

\* the counters as published by metrics()
MetricsZero ==
  /\ totalRequestsReceived = 0
  /\ totalResponsesSent = 0
  /\ totalResponsesSentByStatus = [c \in StatusCodes |-> 0]
  /\ published = MetricNames

\* no client sends credentials and the store is empty
StoreEmpty ==
  /\ authz = [i \in Identities |-> <<>>]
  /\ tokens = {}
  /\ users = [u \in UserIds |-> [active |-> FALSE]]
  /\ permissions = [u \in UserIds |-> {}]
  /\ issued = NothingIssued

(***************************************************************************)
(* Specification of serve() with its connections and background tasks.     *)
(***************************************************************************)
InitServe ==
  /\ chain = <<>>
  /\ config = [enabled |-> FALSE, rps |-> 0, burst |-> 0]
  /\ now = 0
  /\ mu = NoOne
  /\ clients = [ip \in Identities |-> Absent]
  /\ sweeper = "sleep"
  /\ req = [p \in Reqs |-> IdleReq]
  /\ ServerNotStarted
  /\ StoreEmpty
  /\ MetricsZero
  /\ cors = [ip \in Identities |-> SameOrigin]

NextServe ==
  \/ MainListen
  \/ MainServeReturns
  \/ ProcessExit
  \/ Signal
  \/ ShutdownBegin
  \/ GraceElapses
  \/ ShutdownPoll
  \/ ShutdownWait
  \/ SendShutdownError
  \/ WgWait
  \/ SendShutdownNil
  \/ \E c \in Conns : Accept(c)
  \/ \E c \in Conns : BackgroundAdd(c)
  \/ \E c \in Conns : BackgroundGo(c)
  \/ \E c \in Conns : HandlerNoBackground(c)
  \/ \E c \in Conns : HandlerReturns(c)
  \/ \E t \in Tasks : TaskReturns(t)
  \/ \E t \in Tasks : TaskPanics(t)
  \/ \E t \in Tasks : TaskRecover(t)
  \/ \E t \in Tasks : TaskDone(t)

SpecServe == InitServe /\ [][NextServe]_vars

(***************************************************************************)
(* Specification of the limiter alone: chain = rateLimit(final handler).   *)
(***************************************************************************)
InitLimiter ==
  /\ chain = <<"rateLimit">>
  /\ config \in [enabled : BOOLEAN, rps : Rates, burst : 0..MaxBurst]
  /\ now = 0
  /\ mu = NoOne
  /\ clients = [ip \in Identities |-> Absent]
  /\ sweeper = "sleep"
  /\ req = [p \in Reqs |-> IdleReq]
  /\ ServerNotStarted
  /\ StoreEmpty
  /\ MetricsZero
  /\ cors = [ip \in Identities |-> SameOrigin]

NextLimiter ==
  \/ \E p \in Reqs : Issue(p)
  \/ \E p \in Reqs : RateLimitEnter(p)
  \/ \E p \in Reqs : RateLimitLookup(p)
  \/ \E p \in Reqs : RateLimitCreate(p)
  \/ \E p \in Reqs : RateLimitAllow(p)
  \/ \E p \in Reqs : RateLimitReject(p)
  \/ \E p \in Reqs : RateLimitAdmit(p)
  \/ \E p \in Reqs : FinalHandler(p)
  \/ SweepLock
  \/ SweepRun
  \/ Tick

SpecLimiter == InitLimiter /\ [][NextLimiter]_vars

(***************************************************************************)
(* Specification of authenticate alone with every header of up to          *)
(* MaxHdrLen atoms: chain = authenticate(final handler).                   *)
(***************************************************************************)
CredentialA(scope, expires) ==
  [hash |-> Sha256(<<"tokA">>), scope |-> scope, user |-> 1, expires |-> expires]

CredentialB(scope, expires) ==
  [hash |-> Sha256(<<"tokB">>), scope |-> scope, user |-> 2, expires |-> expires]

LimiterOff ==
  /\ config = [enabled |-> FALSE, rps |-> 0, burst |-> 0]
  /\ now = 0
  /\ mu = NoOne
  /\ clients = [ip \in Identities |-> Absent]
  /\ sweeper = "sleep"

InitHdr ==
  /\ chain = <<"authenticate">>
  /\ LimiterOff
  /\ req = [p \in Reqs |-> IdleReq]
  /\ ServerNotStarted
  /\ MetricsZero
  /\ cors = [ip \in Identities |-> SameOrigin]
  /\ authz \in {[ipA |-> h, ipB |-> <<>>] : h \in Headers}
  /\ tokens = {CredentialA(ScopeAuthentication, MaxTime + 1)}
  /\ users = [u \in UserIds |-> [active |-> TRUE]]
  /\ permissions = [u \in UserIds |-> {}]
  /\ issued = NothingIssued

NextHdr ==
  \/ \E p \in Reqs : Issue(p)
  \/ \E p \in Reqs : Authenticate(p)
  \/ \E p \in Reqs : AuthenticateLookup(p)
  \/ \E p \in Reqs : FinalHandler(p)

SpecHdr == InitHdr /\ [][NextHdr]_vars

(***************************************************************************)
(* Specification of authenticate with well-formed tokens, credentials of   *)
(* either scope and any expiry, and the clock running.                     *)
(***************************************************************************)
InitAuth ==
  /\ chain = <<"authenticate">>
  /\ LimiterOff
  /\ req = [p \in Reqs |-> IdleReq]
  /\ ServerNotStarted
  /\ MetricsZero
  /\ cors = [ip \in Identities |-> SameOrigin]
  /\ authz \in {[ipA |-> BearerHeader(pt), ipB |-> <<>>] :
                  pt \in {<<"tokA">>, <<"t21", "c">>}}
  /\ tokens \in {{CredentialA(s, e)} : s \in Scopes, e \in 0..MaxTime}
  /\ users \in [UserIds -> [active : BOOLEAN]]
  /\ permissions = [u \in UserIds |-> {}]
  /\ issued = NothingIssued

NextAuth ==
  \/ \E p \in Reqs : Issue(p)
  \/ \E p \in Reqs : Authenticate(p)
  \/ \E p \in Reqs : AuthenticateLookup(p)
  \/ \E p \in Reqs : FinalHandler(p)
  \/ Tick

SpecAuth == InitAuth /\ [][NextAuth]_vars

(***************************************************************************)
(* Specification of a guarded route: chain = authenticate(                 *)
(* requireAuthenticatedUser(requireActivatedUser(requirePermissions(h)))), *)
(* with the permissions of the users being updated meanwhile.              *)
(***************************************************************************)
InitGuard ==
  /\ chain = <<"authenticate", "requireAuthenticatedUser",
               "requireActivatedUser", "requirePermissions">>
  /\ LimiterOff
  /\ req = [p \in Reqs |-> IdleReq]
  /\ ServerNotStarted
  /\ MetricsZero
  /\ cors = [ip \in Identities |-> SameOrigin]
  /\ authz \in {[ipA |-> h, ipB |-> BearerHeader(<<"tokB">>)] :
                  h \in {<<>>, BearerHeader(<<"tokA">>)}}
  /\ tokens = {CredentialA(ScopeAuthentication, MaxTime + 1),
               CredentialB(ScopeAuthentication, MaxTime + 1)}
  /\ users \in [UserIds -> [active : BOOLEAN]]
  /\ permissions = [u \in UserIds |-> {}]
  /\ issued = NothingIssued

NextGuard ==
  \/ \E p \in Reqs : Issue(p)
  \/ \E p \in Reqs : Authenticate(p)
  \/ \E p \in Reqs : AuthenticateLookup(p)
  \/ \E p \in Reqs : RequireAuthenticatedUser(p)
  \/ \E p \in Reqs : RequireActivatedUser(p)
  \/ \E p \in Reqs : RequirePermissions(p)
  \/ \E p \in Reqs : FinalHandler(p)
  \/ \E u \in UserIds, codes \in SUBSET Codes \ {{}} : AssignPermissions(u, codes)
  \/ \E u \in UserIds : ClearPermissions(u)

SpecGuard == InitGuard /\ [][NextGuard]_vars

(***************************************************************************)
(* Specification of the token round trip: tokens are created, presented    *)
(* to authenticate, and deleted, while the clock runs.  The store holds a  *)
(* token of user 2 that was created earlier.                               *)
(***************************************************************************)
InitToken ==
  /\ chain = <<"authenticate">>
  /\ LimiterOff
  /\ req = [p \in Reqs |-> IdleReq]
  /\ ServerNotStarted
  /\ MetricsZero
  /\ cors = [ip \in Identities |-> SameOrigin]
  /\ authz = [ip \in Identities |-> <<>>]
  /\ tokens = {CredentialB(ScopeAuthentication, MaxTime + 1)}
  /\ users = [u \in UserIds |-> [active |-> TRUE]]
  /\ permissions = [u \in UserIds |-> {}]
  /\ issued = NothingIssued

NextToken ==
  \/ \E p \in Reqs : Issue(p)
  \/ \E p \in Reqs : Authenticate(p)
  \/ \E p \in Reqs : AuthenticateLookup(p)
  \/ \E p \in Reqs : FinalHandler(p)
  \/ \E u \in UserIds, ttl \in 0..MaxTtl : New("ipA", u, ttl, ScopeAuthentication)
  \/ \E scope \in Scopes, u \in UserIds : DeleteAllForUser(scope, u)
  \/ Tick

SpecToken == InitToken /\ [][NextToken]_vars

(***************************************************************************)
(* Specification of the composed pipeline (routes.go 59) in front of a     *)
(* handler that writes, returns or panics; the limiter admits one request  *)
(* per client; client ipA sends no credentials or a valid token, client    *)
(* ipB a header that authenticate rejects.                                 *)
(***************************************************************************)
InitPipeline ==
  /\ chain = <<"recoverPanic", "enableCORS", "metrics", "rateLimit",
               "authenticate", "handler">>
  /\ config = [enabled |-> TRUE, rps |-> 0, burst |-> 1]
  /\ now = 0
  /\ mu = NoOne
  /\ clients = [ip \in Identities |-> Absent]
  /\ sweeper = "sleep"
  /\ req = [p \in Reqs |-> IdleReq]
  /\ ServerNotStarted
  /\ MetricsZero
  /\ cors \in {[ipA |-> c, ipB |-> SameOrigin] : c \in CorsRequests}
  /\ authz \in {[ipA |-> h, ipB |-> Bearer] : h \in {<<>>, BearerHeader(<<"tokA">>)}}
  /\ tokens = {CredentialA(ScopeAuthentication, MaxTime + 1)}
  /\ users = [u \in UserIds |-> [active |-> TRUE]]
  /\ permissions = [u \in UserIds |-> {}]
  /\ issued = NothingIssued

NextPipeline ==
  \/ \E p \in Reqs : Issue(p)
  \/ \E p \in Reqs : RecoverPanic(p)
  \/ \E p \in Reqs : EnableCORS(p)
  \/ \E p \in Reqs : MetricsEnter(p)
  \/ \E p \in Reqs : RateLimitEnter(p)
  \/ \E p \in Reqs : RateLimitLookup(p)
  \/ \E p \in Reqs : RateLimitCreate(p)
  \/ \E p \in Reqs : RateLimitAllow(p)
  \/ \E p \in Reqs : RateLimitReject(p)
  \/ \E p \in Reqs : RateLimitAdmit(p)
  \/ \E p \in Reqs : Authenticate(p)
  \/ \E p \in Reqs : AuthenticateLookup(p)
  \/ \E p \in Reqs : ServeHTTP(p)
  \/ \E p \in Reqs, code \in HandlerCodes : ServeWriteHeader(p, code)
  \/ \E p \in Reqs : ServeWrite(p)
  \/ \E p \in Reqs : ServeReturn(p)
  \/ \E p \in Reqs : ServePanic(p)
  \/ \E p \in Reqs : MetricsSent(p)
  \/ \E p \in Reqs : MetricsByStatus(p)
  \/ \E p \in Reqs : RecoverPanicDeferred(p)

SpecPipeline == InitPipeline /\ [][NextPipeline]_vars

(***************************************************************************)
(* Specification of the composed pipeline in front of the router, for each *)
(* kind of route: a route guarded by a permission, a route for any         *)
(* authenticated user, an unguarded route, and no route (404).  The        *)
(* limiter is disabled.                                                    *)
(***************************************************************************)
Pipeline == <<"recoverPanic", "enableCORS", "metrics", "rateLimit", "authenticate">>

Routes ==
  {<<"requireAuthenticatedUser", "requireActivatedUser", "requirePermissions">>,
   <<"requireAuthenticatedUser", "showCurrentUser">>,
   <<"notFound">>,
   <<>>}

InitRoute ==
  /\ chain \in {Pipeline \o route : route \in Routes}
  /\ LimiterOff
  /\ req = [p \in Reqs |-> IdleReq]
  /\ ServerNotStarted
  /\ MetricsZero
  /\ cors = [ip \in Identities |-> SameOrigin]
  /\ authz \in {[ipA |-> h, ipB |-> <<>>] : h \in {Bearer, BearerHeader(<<"tokA">>)}}
  /\ tokens = {CredentialA(ScopeAuthentication, MaxTime + 1)}
  /\ users \in {[u \in UserIds |-> [active |-> IF u = 1 THEN a ELSE TRUE]] :
                  a \in BOOLEAN}
  /\ permissions \in {[u \in UserIds |-> IF u = 1 THEN S ELSE {}] :
                        S \in {{}, {RouteCode}}}
  /\ issued = NothingIssued

NextRoute ==
  \/ \E p \in Reqs : Issue(p)
  \/ \E p \in Reqs : RecoverPanic(p)
  \/ \E p \in Reqs : EnableCORS(p)
  \/ \E p \in Reqs : MetricsEnter(p)
  \/ \E p \in Reqs : RateLimitEnter(p)
  \/ \E p \in Reqs : Authenticate(p)
  \/ \E p \in Reqs : AuthenticateLookup(p)
  \/ \E p \in Reqs : RequireAuthenticatedUser(p)
  \/ \E p \in Reqs : RequireActivatedUser(p)
  \/ \E p \in Reqs : RequirePermissions(p)
  \/ \E p \in Reqs : ShowCurrentUserHandler(p)
  \/ \E p \in Reqs : NotFoundResponse(p)
  \/ \E p \in Reqs : FinalHandler(p)
  \/ \E p \in Reqs : MetricsSent(p)
  \/ \E p \in Reqs : MetricsByStatus(p)

SpecRoute == InitRoute /\ [][NextRoute]_vars

(***************************************************************************)
(* Specification of the limiter in front of a handler that is slow,        *)
(* returns or panics, with the sweep goroutine and the clock running:      *)
(* chain = recoverPanic(rateLimit(h)).                                     *)
(***************************************************************************)
InitHold ==
  /\ chain = <<"recoverPanic", "rateLimit", "handler">>
  /\ config \in [enabled : {TRUE}, rps : Rates, burst : {1}]
  /\ now = 0
  /\ mu = NoOne
  /\ clients = [ip \in Identities |-> Absent]
  /\ sweeper = "sleep"
  /\ req = [p \in Reqs |-> IdleReq]
  /\ ServerNotStarted
  /\ StoreEmpty
  /\ MetricsZero
  /\ cors = [ip \in Identities |-> SameOrigin]

NextHold ==
  \/ \E p \in Reqs : Issue(p)
  \/ \E p \in Reqs : RecoverPanic(p)
  \/ \E p \in Reqs : RateLimitEnter(p)
  \/ \E p \in Reqs : RateLimitLookup(p)
  \/ \E p \in Reqs : RateLimitCreate(p)
  \/ \E p \in Reqs : RateLimitAllow(p)
  \/ \E p \in Reqs : RateLimitReject(p)
  \/ \E p \in Reqs : RateLimitAdmit(p)
  \/ \E p \in Reqs : ServeHTTP(p)
  \/ \E p \in Reqs : ServeReturn(p)
  \/ \E p \in Reqs : ServePanic(p)
  \/ \E p \in Reqs : RecoverPanicDeferred(p)
  \/ SweepLock
  \/ SweepRun
  \/ Tick

SpecHold == InitHold /\ [][NextHold]_vars

(***************************************************************************)
(* executeRequest (handlers_test.go 84-88): app.routes() builds a pipeline *)
(* for every request, then the request is served by it.  The arguments of  *)
(* routes.go 59 are evaluated innermost first: app.rateLimit makes a new   *)
(* mutex and map and starts a sweep goroutine, then app.metrics registers  *)
(* its counters with expvar, whose Publish panics on a name that is        *)
(* registered already.                                                     *)
(***************************************************************************)
\* expvar.Publish(name, v): if _, dup := vars.LoadOrStore(name, v); dup {
\* log.Panicln("Reuse of exported var name:", name) }
Reuse(names) == names \cap published # {}

executeRequest(p) ==
  /\ req[p].pc = "idle"
  /\ \A q \in Reqs : q < p => req[q].pc # "idle"
  /\ \A q \in Reqs : req[q].pc # "panic"
  /\ IF Reuse(MetricNames)
       THEN /\ req' = [req EXCEPT ![p].pc = "panic"]
            /\ UNCHANGED <<chain, mu, clients, sweeper, totalRequestsReceived,
                           totalResponsesSent, totalResponsesSentByStatus,
                           published>>
       ELSE /\ \E route \in Routes : chain' = Pipeline \o route
            /\ mu' = NoOne
            /\ clients' = [ip \in Identities |-> Absent]
            /\ sweeper' = "sleep"
            /\ published' = published \cup MetricNames
            /\ totalRequestsReceived' = 0
            /\ totalResponsesSent' = 0
            /\ totalResponsesSentByStatus' = [c \in StatusCodes |-> 0]
            /\ \E ip \in Identities :
                 req' = [req EXCEPT ![p] = [IdleReq EXCEPT !.pc = "rc_enter",
                                                           !.stage = 1, !.ip = ip]]
  /\ UNCHANGED <<authVars, config, now, srvVars>>

(***************************************************************************)
(* Specification of a test that calls executeRequest for each of its       *)
(* requests.                                                               *)
(***************************************************************************)
InitExec ==
  /\ chain = <<>>
  /\ LimiterOff
  /\ req = [p \in Reqs |-> IdleReq]
  /\ ServerNotStarted
  /\ totalRequestsReceived = 0
  /\ totalResponsesSent = 0
  /\ totalResponsesSentByStatus = [c \in StatusCodes |-> 0]
  /\ published = {}
  /\ cors = [ip \in Identities |-> SameOrigin]
  /\ authz \in {[ipA |-> h, ipB |-> <<>>] : h \in {Bearer, BearerHeader(<<"tokA">>)}}
  /\ tokens = {CredentialA(ScopeAuthentication, MaxTime + 1)}
  /\ users = [u \in UserIds |-> [active |-> TRUE]]
  /\ permissions \in {[u \in UserIds |-> IF u = 1 THEN S ELSE {}] :
                        S \in {{}, {RouteCode}}}
  /\ issued = NothingIssued

NextExec ==
  \/ \E p \in Reqs : executeRequest(p)
  \/ \E p \in Reqs : RecoverPanic(p)
  \/ \E p \in Reqs : EnableCORS(p)
  \/ \E p \in Reqs : MetricsEnter(p)
  \/ \E p \in Reqs : RateLimitEnter(p)
  \/ \E p \in Reqs : Authenticate(p)
  \/ \E p \in Reqs : AuthenticateLookup(p)
  \/ \E p \in Reqs : RequireAuthenticatedUser(p)
  \/ \E p \in Reqs : RequireActivatedUser(p)
  \/ \E p \in Reqs : RequirePermissions(p)
  \/ \E p \in Reqs : ShowCurrentUserHandler(p)
  \/ \E p \in Reqs : NotFoundResponse(p)
  \/ \E p \in Reqs : FinalHandler(p)
  \/ \E p \in Reqs : MetricsSent(p)
  \/ \E p \in Reqs : MetricsByStatus(p)

SpecExec == InitExec /\ [][NextExec]_vars

(***************************************************************************)
(* Specification of a guarded route whose clients may disconnect at any    *)
(* time.  The store calls run under context.WithTimeout(context.           *)
(* Background(), 3*time.Second) (users.go 355, permissions.go 49), so the  *)
(* context of the request is no input of GetForToken and GetAllForUser.    *)
(***************************************************************************)
InitCancel ==
  /\ chain = <<"authenticate", "requireAuthenticatedUser",
               "requireActivatedUser", "requirePermissions">>
  /\ LimiterOff
  /\ req = [p \in Reqs |-> IdleReq]
  /\ ServerNotStarted
  /\ MetricsZero
  /\ cors = [ip \in Identities |-> SameOrigin]
  /\ authz = [ipA |-> BearerHeader(<<"tokA">>), ipB |-> BearerHeader(<<"tokB">>)]
  /\ tokens = {CredentialA(ScopeAuthentication, MaxTime + 1)}
  /\ users = [u \in UserIds |-> [active |-> TRUE]]
  /\ permissions \in {[u \in UserIds |-> IF u = 1 THEN S ELSE {}] :
                        S \in {{}, {RouteCode}}}
  /\ issued = NothingIssued

NextCancel ==
  \/ \E p \in Reqs : Issue(p)
  \/ \E p \in Reqs : ClientDisconnects(p)
  \/ \E p \in Reqs : Authenticate(p)
  \/ \E p \in Reqs : AuthenticateLookup(p)
  \/ \E p \in Reqs : RequireAuthenticatedUser(p)
  \/ \E p \in Reqs : RequireActivatedUser(p)
  \/ \E p \in Reqs : RequirePermissions(p)
  \/ \E p \in Reqs : FinalHandler(p)

SpecCancel == InitCancel /\ [][NextCancel]_vars

(***************************************************************************)
(* Specification of account activation: the store holds one token of user  *)
(* 1, of either scope and any expiry, and the clock runs.                  *)
(***************************************************************************)
InitActivate ==
  /\ chain = <<"activateUser">>
  /\ LimiterOff
  /\ req = [p \in Reqs |-> IdleReq]
  /\ ServerNotStarted
  /\ MetricsZero
  /\ cors = [ip \in Identities |-> SameOrigin]
  /\ authz = [ip \in Identities |-> <<>>]
  /\ tokens \in {{CredentialA(s, e)} : s \in Scopes, e \in 0..MaxTime}
  /\ users = [u \in UserIds |-> [active |-> FALSE]]
  /\ permissions = [u \in UserIds |-> {}]
  /\ issued = NothingIssued

NextActivate ==
  \/ \E p \in Reqs : Issue(p)
  \/ \E p \in Reqs : ActivateUser(p)
  \/ \E p \in Reqs : ActivateUserLookup(p)
  \/ \E p \in Reqs : ActivateUserUpdate(p)
  \/ Tick

SpecActivate == InitActivate /\ [][NextActivate]_vars

(***************************************************************************)
(* Specification of the two routes of updateUserHandler behind             *)
(* authenticate (routes(), lines 37 and 43).  Client ipA presents the      *)
(* token of user 1, client ipB the token of user 2 or none.                *)
(***************************************************************************)
UpdateRoutes ==
  {<<"authenticate", "requireAuthenticatedUser", "updateUser">>,
   <<"authenticate", "requireAuthenticatedUser", "requireAuthenticatedUser",
     "requireActivatedUser", "requirePermissions", "updateUser">>}

InitUpdate ==
  /\ chain \in UpdateRoutes
  /\ LimiterOff
  /\ req = [p \in Reqs |-> IdleReq]
  /\ ServerNotStarted
  /\ MetricsZero
  /\ cors = [ip \in Identities |-> SameOrigin]
  /\ authz \in {[ipA |-> BearerHeader(<<"tokA">>), ipB |-> h] :
                  h \in {<<>>, BearerHeader(<<"tokB">>)}}
  /\ tokens = {CredentialA(ScopeAuthentication, MaxTime + 1),
               CredentialB(ScopeAuthentication, MaxTime + 1)}
  /\ users \in {[u \in UserIds |-> [active |-> IF u = 1 THEN TRUE ELSE a]] :
                  a \in BOOLEAN}
  /\ permissions \in {[u \in UserIds |-> IF u = 1 THEN S ELSE {}] :
                        S \in {{}, {"users:view", "users:update"}}}
  /\ issued = NothingIssued

NextUpdate ==
  \/ \E p \in Reqs : Issue(p)
  \/ \E p \in Reqs : Authenticate(p)
  \/ \E p \in Reqs : AuthenticateLookup(p)
  \/ \E p \in Reqs : RequireAuthenticatedUser(p)
  \/ \E p \in Reqs : RequireActivatedUser(p)
  \/ \E p \in Reqs : RequirePermissions(p)
  \/ \E p \in Reqs : UpdateUserHandler(p)

SpecUpdate == InitUpdate /\ [][NextUpdate]_vars

(***************************************************************************)
(* Specification of the metrics writer: chain = metrics(h) for a handler h *)
(* that calls WriteHeader and Write in any order.                          *)
(***************************************************************************)
InitWriter ==
  /\ chain = <<"metrics", "handler">>
  /\ LimiterOff
  /\ req = [p \in Reqs |-> IdleReq]
  /\ ServerNotStarted
  /\ MetricsZero
  /\ cors = [ip \in Identities |-> SameOrigin]
  /\ StoreEmpty

NextWriter ==
  \/ \E p \in Reqs : Issue(p)
  \/ \E p \in Reqs : MetricsEnter(p)
  \/ \E p \in Reqs : ServeHTTP(p)
  \/ \E p \in Reqs, code \in HandlerCodes : ServeWriteHeader(p, code)
  \/ \E p \in Reqs : ServeWrite(p)
  \/ \E p \in Reqs : ServeReturn(p)
  \/ \E p \in Reqs : MetricsSent(p)
  \/ \E p \in Reqs : MetricsByStatus(p)

SpecWriter == InitWriter /\ [][NextWriter]_vars

(***************************************************************************)
(* Observations of the limiter stage.                                      *)
(***************************************************************************)
StageOf(name) == CHOOSE k \in 1..Len(chain) : chain[k] = name

From(i) == {p \in Reqs : req[p].pc # "idle" /\ req[p].ip = i}

\* rateLimit has called next.ServeHTTP for p
PassedOn(p) == req[p].pc # "idle" /\ req[p].stage > StageOf("rateLimit")

\* rateLimit has answered p with 429 and returned
Throttled(p) ==
  /\ req[p].pc = "done"
  /\ req[p].stage = StageOf("rateLimit")
  /\ req[p].status = StatusTooManyRequests
  /\ req[p].nextCalls = 0

\* Allow() has decided p
Decided(p) == PassedOn(p) \/ req[p].pc \in {"rl_admit", "rl_reject"} \/ Throttled(p)

Granted(p) == PassedOn(p) \/ req[p].pc = "rl_admit"

\* C1: with the limiter enabled and refill rate 0, of the requests that one
\* identity issues concurrently (in any interleaving, within the time in
\* which no entry can become idle) at most burst are passed on to the next
\* handler, and every other one that has returned was answered 429.
C1_ConcurrentNeverOverAdmit ==
  (config.enabled /\ config.rps = 0 /\ now <= IdleLimit) =>
    \A i \in Identities :
      /\ Cardinality({p \in From(i) : PassedOn(p)}) <= config.burst
      /\ \A p \in From(i) : req[p].pc = "done" => (PassedOn(p) \/ Throttled(p))

\* C1 witness: all requests come from one identity, two of them were inside
\* rateLimit at once, burst of them were passed on and one was throttled.
C1_Witness ==
  /\ config.enabled /\ config.rps = 0 /\ config.burst = MaxBurst
  /\ now <= IdleLimit
  /\ From("ipA") = Reqs
  /\ Cardinality({p \in Reqs : PassedOn(p)}) = config.burst
  /\ \E p \in Reqs : Throttled(p)
  /\ \E p \in Reqs : req[p].pc = "final"

\* C10: with the limiter enabled, of the requests a previously unseen
\* identity issues with no time elapsing, exactly the first burst decided are
\* admitted and every later one is rejected with 429 (so of burst+1 requests
\* exactly burst are admitted and one is rejected).
C10_FirstBurstAdmitted ==
  (config.enabled /\ now = 0) =>
    \A i \in Identities :
      /\ Cardinality({p \in From(i) : Granted(p)}) =
           Min(Cardinality({p \in From(i) : Decided(p)}), config.burst)
      /\ \A p \in From(i) :
           (req[p].pc = "done" /\ ~PassedOn(p)) => Throttled(p)

\* C10 witness: burst+1 requests of one identity are done at time 0, burst
\* of them served by the next handler and one answered 429.
C10_Witness ==
  /\ config.enabled /\ now = 0 /\ config.burst = MaxBurst /\ config.rps = 1
  /\ \E S \in SUBSET From("ipA") :
       /\ Cardinality(S) = config.burst + 1
       /\ \A p \in S : req[p].pc = "done"
       /\ Cardinality({p \in S : req[p].nextCalls = 1 /\ req[p].status = StatusOK})
            = config.burst
       /\ Cardinality({p \in S : Throttled(p)}) = 1

(***************************************************************************)
(* Observations of serve() and app.background.                             *)
(***************************************************************************)
Deregistered(t) == task[t] \in {"finished", "survived"}

\* C2: with K background tasks outstanding when the termination signal
\* arrives, serve() does not return nil before all K have deregistered.
C2_NoStopBeforeTasksDeregister ==
  result = "nil" => (wg = 0 /\ \A t \in atSignal : Deregistered(t))

\* C2 witness: serve() returned nil, MaxTasks tasks were outstanding at the
\* signal and all finished inside the grace window.
C2_Witness ==
  /\ result = "nil"
  /\ Cardinality(atSignal) = MaxTasks
  /\ grace \in {"running", "intime"}

\* C3: if the grace window elapses before the in-flight requests or the
\* outstanding background tasks have finished, serve() does not return nil.
C3_GraceElapsedReportsError ==
  grace = "late" => result # "nil"

\* C8: the WaitGroup counter equals the number of tasks registered and not
\* yet deregistered (Add before the goroutine is launched, Done exactly once
\* after fn returned or panicked), is never negative, and a panic in fn never
\* ends the process.
C8_CountMatchesOutstanding ==
  /\ wg = Cardinality(Outstanding)
  /\ wg >= 0
  /\ ~crashed

\* C8 witness: one task panicked, was recovered and deregistered while
\* another one is registered but not yet launched.
C8_Witness ==
  /\ \E t \in Tasks : task[t] = "survived"
  /\ \E t \in Tasks : task[t] = "added"
  /\ wg = 1

Lifecycle ==
  IF result = "nil" THEN "Stopped"
  ELSE IF result = "err" THEN "Failed"
  ELSE IF srv.inShutdown THEN "ShuttingDown"
  ELSE IF srv.listener = "open" THEN "Listening"
  ELSE "Starting"

Accepting == \E c \in Conns : conn[c] = "none" /\ conn'[c] = "handling"

StoppedOnlyWhenDrained ==
  (result = "none" /\ result' = "nil") =>
     (sdErr = "nil" /\ ActiveConns = {} /\ wg = 0)

ErrorExit == Lifecycle \in {"Starting", "ShuttingDown"} /\ Lifecycle' = "Failed"

WellFormedHeader(h) ==
  /\ Len(h) >= 3
  /\ h[1] = "Bearer"
  /\ h[2] = SP
  /\ \A i \in 3..Len(h) : h[i] # SP
  /\ ByteLen(SubSeq(h, 3, Len(h))) = TokenLen

Malformed(h) == h # <<>> /\ ~WellFormedHeader(h)

\* C5: a request whose Authorization header is non-empty but malformed is
\* answered 401 by authenticate, is never passed to the next handler and
\* never causes a call of GetForToken.
C5_MalformedRejectedWithoutLookup ==
  \A p \in Reqs :
    (req[p].pc # "idle" /\ Malformed(AuthorizationHeader(p))) =>
       /\ req[p].lookups = 0
       /\ req[p].nextCalls = 0
       /\ req[p].stage = StageOf("authenticate")
       /\ req[p].pc \in {"au_enter", "done"}
       /\ req[p].pc = "done" => req[p].status = StatusUnauthorized

\* C5 witness: a request with "Bearer " and a token of 23 bytes was answered
\* 401.
C5_Witness ==
  /\ authz["ipA"] = <<"Bearer", SP, "tokA", "c">>
  /\ \E p \in Reqs : /\ req[p].ip = "ipA"
                     /\ req[p].pc = "done"
                     /\ req[p].status = StatusUnauthorized
                     /\ req[p].lookups = 0

\* the token of a well-formed header
Presented(p) == SubSeq(AuthorizationHeader(p), 3, Len(AuthorizationHeader(p)))

\* the store holds a credential for the presented token: hash of the
\* plaintext, scope authentication, expiry strictly later than now
HasLiveCredential(p) ==
  \E t \in tokens : /\ t.hash = Sha256(Presented(p))
                    /\ t.scope = "authentication"
                    /\ t.expires > now

LookupStep(p) == req[p].pc = "au_lookup" /\ req'[p].pc # "au_lookup"

NextNotCalled(p) ==
  /\ req'[p].pc = "done"
  /\ req'[p].stage = req[p].stage
  /\ req'[p].nextCalls = 0
  /\ req'[p].user = NoUser

\* C6 as stated: a well-formed token resolves to a principal only if the
\* store holds a credential with the hash of the plaintext, scope
\* authentication and expiry strictly later than the time of the request; in
\* every other case authenticate responds 401 and does not call next.
C6_ElseUnauthorized ==
  [][\A p \in Reqs : LookupStep(p) =>
       /\ req'[p].user.kind = "user" => HasLiveCredential(p)
       /\ ~HasLiveCredential(p) =>
            (NextNotCalled(p) /\ req'[p].status = StatusUnauthorized)]_vars

\* C6 amended: a well-formed token resolves to a principal only if the store
\* holds such a credential; in every other case next is not called, and
\* authenticate responds 401 if the lookup reports "record not found" and 500
\* if the lookup itself fails.
C6_ResolvesOnlyLiveCredential ==
  [][\A p \in Reqs : LookupStep(p) =>
       /\ (req'[p].user.kind = "user" \/ req'[p].stage > req[p].stage) =>
            HasLiveCredential(p)
       /\ ~HasLiveCredential(p) =>
            /\ NextNotCalled(p)
            /\ \/ req'[p].err = "ErrRecordNotFound" /\ req'[p].status = StatusUnauthorized
               \/ req'[p].err = "other" /\ req'[p].status = StatusInternalServerError]_vars

\* C6 witness: of two requests presenting the same token one was resolved to
\* the user and a later one, the credential having expired, answered 401.
C6_Witness ==
  \E p, q \in Reqs :
    /\ req[p].ip = "ipA" /\ req[q].ip = "ipA"
    /\ req[p].pc = "done" /\ req[p].user.kind = "user" /\ req[p].nextCalls = 1
    /\ req[q].pc = "done" /\ req[q].status = StatusUnauthorized
    /\ req[q].lookups = 1 /\ req[q].err = "ErrRecordNotFound"

(***************************************************************************)
(* Observations of the guards.                                             *)
(***************************************************************************)
Ends(p) ==
  /\ req[p].pc # "done"
  /\ req'[p].pc = "done"
  /\ req[p].stage >= StageOf("requireAuthenticatedUser")

Refused(p, code) == req'[p].status = code /\ req'[p].nextCalls = 0

Holds(p) == RouteCode \in permissions[req[p].user.id]

\* C4: a request to a route wrapped in requirePermissions(code) ends in
\* exactly one of: anonymous principal -> 401; inactive principal -> 403;
\* active principal whose permission set lacks code -> 403; active principal
\* whose set contains code -> the handler is invoked exactly once; and in the
\* first three cases the handler is not invoked.
C4_FourOutcomes ==
  [][\A p \in Reqs :
       LET u == req[p].user
       IN /\ (Ends(p) /\ IsAnonymous(u)) => Refused(p, StatusUnauthorized)
          /\ (Ends(p) /\ ~IsAnonymous(u) /\ ~u.active) => Refused(p, StatusForbidden)
          /\ (Ends(p) /\ u.active /\ req[p].pc # "final") =>
               (~Holds(p) /\ Refused(p, StatusForbidden))
          /\ (req[p].pc = "rp_enter" /\ req'[p] # req[p] /\ Holds(p)) =>
               req'[p].pc = "final"
          /\ (Ends(p) /\ req[p].pc = "final") =>
               (u.active /\ req'[p].nextCalls = 1)]_vars

Decides(p) == req[p].pc = "rp_enter" /\ req'[p] # req[p]

\* C7: the decision of requirePermissions(code) for a request depends only
\* on the permission set the store holds for the principal at the time of
\* the request: it allows only if the set contains code and answers "not
\* permitted" only if the set lacks it, whatever updates went before.
C7_DecidedOnCurrentSet ==
  [][\A p \in Reqs : Decides(p) =>
       /\ req'[p].pc = "final" => Holds(p)
       /\ req'[p].status = StatusForbidden => ~Holds(p)]_vars

(***************************************************************************)
(* Observations of the metrics response writer.                            *)
(***************************************************************************)
\* the handler of request p calls op on its writer in this step
Calls(p, op) ==
  /\ req[p].pc = "h_run"
  /\ req'[p].pc = "h_run"
  /\ req'[p].call.op = op

\* C20: the metrics writer records only the first status code: its first
\* WriteHeader(code) records code, a Write before any WriteHeader records
\* 200, and every later WriteHeader or Write leaves the recorded status
\* unchanged.
C20_RecordsFirstStatusOnly ==
  [][\A p \in Reqs :
       /\ req[p].mw.on /\ ~req[p].mw.headerWritten =>
            /\ req[p].mw.statusCode = StatusOK
            /\ Calls(p, "WriteHeader") =>
                 req'[p].mw.statusCode = req'[p].call.code
            /\ Calls(p, "Write") => req'[p].mw.statusCode = StatusOK
            /\ Calls(p, "WriteHeader") \/ Calls(p, "Write") =>
                 req'[p].mw.headerWritten
       /\ req[p].mw.on /\ req[p].mw.headerWritten =>
            /\ req'[p].mw.statusCode = req[p].mw.statusCode
            /\ req'[p].mw.headerWritten]_vars

\* a handler wrote a body first and calls WriteHeader(404) afterwards
C20_Witness ==
  \E p \in Reqs :
    /\ req[p].mw.on
    /\ req[p].mw.headerWritten
    /\ req[p].call = [op |-> "WriteHeader", code |-> StatusNotFound]
    /\ req[p].mw.statusCode = StatusOK
    /\ req[p].status = StatusOK

(***************************************************************************)
(* Observations of the order of the guards.                                *)
(***************************************************************************)
Anonymous(p) == req[p].user = AnonymousUser

\* C16: the permission set is queried only for a principal that was found
\* non-anonymous and then active, the checks being made in that order; an
\* anonymous principal is answered 401 'authentication required', never 403
\* 'account inactive', and no permission query is made for it.
C16_GuardsInOrder ==
  \A p \in Reqs :
    /\ req[p].pc = "rv_enter" => req[p].user.kind = "user"
    /\ req[p].pc = "rp_enter" \/ req[p].permLookups >= 1 =>
         req[p].user.kind = "user" /\ req[p].user.active
    /\ Anonymous(p) =>
         /\ req[p].permLookups = 0
         /\ req[p].pc \notin {"rv_enter", "rp_enter", "final"}
         /\ req[p].pc = "done" =>
              req[p].status = StatusUnauthorized /\ req[p].nextCalls = 0

\* an anonymous request was answered 401 and the permissions of an active
\* principal were queried
C16_Witness ==
  \E p, q \in Reqs :
    /\ Anonymous(p) /\ req[p].pc = "done" /\ req[p].status = StatusUnauthorized
    /\ req[q].permLookups = 1 /\ req[q].user.kind = "user" /\ req[q].user.active

\* C18: a credential lookup that fails with an error other than 'record not
\* found' is answered with a logged 500, never with 401, and the next handler
\* is not called; only 'record not found' is answered 401.
C18_LookupFailureIsServerError ==
  [][\A p \in Reqs : LookupStep(p) =>
       /\ req'[p].err = "other" =>
            /\ req'[p].status = StatusInternalServerError
            /\ req'[p].logged
            /\ NextNotCalled(p)
       /\ req'[p].status = StatusUnauthorized =>
            req'[p].err = "ErrRecordNotFound" /\ ~req'[p].logged]_vars

\* a lookup failed in the store and was answered 500, another reported no
\* record and was answered 401
C18_Witness ==
  \E p, q \in Reqs :
    /\ req[p].pc = "done" /\ req[p].err = "other" /\ req[p].lookups = 1
    /\ req[p].status = StatusInternalServerError /\ req[p].logged
    /\ req[q].pc = "done" /\ req[q].err = "ErrRecordNotFound"
    /\ req[q].status = StatusUnauthorized

\* authenticate has examined the header of request p
Examined(p) == req[p].pc \notin {"idle", "au_enter"}

\* C19: a request carries the anonymous principal exactly if it has no
\* Authorization header; with an empty header authenticate installs
\* AnonymousUser and calls next without an error and without a store access;
\* a principal resolved from the store is never anonymous.
C19_AnonymousIffNoHeader ==
  \A p \in Reqs : Examined(p) =>
    /\ Anonymous(p) <=> AuthorizationHeader(p) = <<>>
    /\ AuthorizationHeader(p) = <<>> =>
         /\ req[p].stage > StageOf("authenticate")
         /\ req[p].lookups = 0
         /\ req[p].err = "nil"
         /\ req[p].status # StatusUnauthorized
         /\ ~req[p].logged
    /\ req[p].lookups >= 1 /\ req[p].user # NoUser =>
         /\ req[p].user.kind = "user"
         /\ req[p].user.id \in UserIds

\* one request without a header was passed on as anonymous, one with a
\* token was resolved from the store
C19_Witness ==
  \E p, q \in Reqs :
    /\ Anonymous(p) /\ req[p].pc = "done" /\ req[p].nextCalls = 1
    /\ req[q].lookups = 1 /\ req[q].user.kind = "user" /\ req[q].pc = "done"

(***************************************************************************)
(* Observations of the token round trip.                                   *)
(***************************************************************************)
\* the token that Tokens.New returned to the client of request p
IssuedTo(p) == issued[req[p].ip]

Entered(p) == req[p].mw.statusCode # 0

\* next.ServeHTTP(mw, r) has returned to metrics for request p
Returned(p) == Entered(p) /\ req[p].pc \in {"mt_status", "done"} /\ ~req[p].recovered

\* metrics has returned for request p
Accounted(p) == Entered(p) /\ req[p].pc = "done" /\ ~req[p].recovered

\* the first status code of the response of p as the client receives it
FirstStatus(p) == IF req[p].status = 0 THEN StatusOK ELSE req[p].status

InFlight(p) == req[p].pc \notin {"idle", "done", "panic"}

RECURSIVE SumOver(_, _)
SumOver(f, S) ==
  IF S = {} THEN 0
  ELSE LET x == CHOOSE x \in S : TRUE IN f[x] + SumOver(f, S \ {x})

\* C11 as stated: every request that passes through metrics is counted once
\* in each of the three counters, so that with no request in flight
\* total_requests_received = total_responses_sent = the sum of the by-status
\* counts.
C11_EveryRequestCounted ==
  /\ totalRequestsReceived = Cardinality({p \in Reqs : Entered(p)})
  /\ (\A p \in Reqs : ~InFlight(p)) =>
       /\ totalResponsesSent = totalRequestsReceived
       /\ SumOver(totalResponsesSentByStatus, StatusCodes) = totalRequestsReceived

\* C11: every request that passes through metrics is counted once as
\* received; if the handlers beneath metrics return, rejections with 429 and
\* 401 included, it is counted once as sent and once under the first status
\* code of its response; a request that panics beneath metrics is counted as
\* received only.  No update is lost and no counter decreases.
C11_ReturnedRequestsCounted ==
  /\ totalRequestsReceived = Cardinality({p \in Reqs : Entered(p)})
  /\ totalResponsesSent = Cardinality({p \in Reqs : Returned(p)})
  /\ \A code \in StatusCodes :
       totalResponsesSentByStatus[code] =
         Cardinality({p \in Reqs : Accounted(p) /\ FirstStatus(p) = code})
  /\ (\A p \in Reqs : ~InFlight(p)) =>
       /\ totalResponsesSent = SumOver(totalResponsesSentByStatus, StatusCodes)
       /\ totalRequestsReceived =
            totalResponsesSent + Cardinality({p \in Reqs : req[p].recovered})

\* a throttled request, one refused by authenticate and one served by the
\* handler have all been counted
C11_Witness ==
  /\ \A p \in Reqs : req[p].pc = "done" /\ Accounted(p)
  /\ totalResponsesSentByStatus[StatusTooManyRequests] = 1
  /\ totalResponsesSentByStatus[StatusUnauthorized] = 1
  /\ totalResponsesSentByStatus[StatusNotFound] = 1
  /\ totalRequestsReceived = NumReqs

(***************************************************************************)
(* Observations of recoverPanic.                                           *)
(***************************************************************************)
\* the deferred function of recoverPanic runs for request p in this step
RecoverStep(p) == req[p].pc = "rc_recover" /\ req'[p].pc # "rc_recover"

Consumed(i) == config.burst - clients[i].tokens

\* C14: a request that the limiter rejects never reaches authentication and
\* causes no credential lookup, whatever its Authorization header; with the
\* limiter enabled, every request that gets to a credential lookup has
\* consumed a token of its client's limiter before.
C14_LimiterBeforeAuthentication ==
  /\ \A p \in Reqs :
       /\ req[p].status = StatusTooManyRequests \/ req[p].pc = "rl_reject" =>
            /\ req[p].stage = StageOf("rateLimit")
            /\ req[p].lookups = 0
            /\ req[p].user = NoUser
       /\ req[p].pc \in {"au_enter", "au_lookup"} \/ req[p].lookups >= 1 =>
            PassedOn(p)
  /\ config.enabled /\ config.rps = 0 =>
       \A i \in Identities : clients[i].present =>
         /\ clients[i].tokens >= 0
         /\ Consumed(i) = Cardinality({p \in From(i) : Granted(p)})

\* of two requests carrying the same valid token one was throttled without
\* a lookup, the other consumed the token of the limiter and was looked up
C14_Witness ==
  \E p, q \in Reqs :
    /\ req[p].ip = req[q].ip /\ AuthorizationHeader(p) # <<>>
    /\ Throttled(p) /\ req[p].lookups = 0
    /\ req[q].lookups = 1 /\ req[q].user.kind = "user"
    /\ clients[req[q].ip].tokens = 0

(***************************************************************************)
(* Observations of enableCORS.                                             *)
(***************************************************************************)
\* the requests of identity i are CORS preflight requests: OPTIONS with an
\* Origin header and an Access-Control-Request-Method header
Preflight(i) ==
  cors[i].method = "OPTIONS" /\ cors[i].origin # "" /\ cors[i].acrm

\* no request of identity i gets beyond enableCORS, which answers it 200
ShortCircuits(i) ==
  /\ ~clients[i].present
  /\ \A p \in From(i) :
       /\ req[p].stage <= StageOf("enableCORS")
       /\ req[p].pc \in {"rc_enter", "co_enter", "done"}
       /\ req[p].pc = "done" => req[p].status = StatusOK
       /\ req[p].lookups = 0
       /\ req[p].nextCalls = 0
       /\ ~Entered(p)

\* C15 as stated: every CORS preflight request short-circuits in enableCORS:
\* it never reaches the limiter, authentication or the router, consumes no
\* rate-limit token and causes no credential lookup.
C15_EveryPreflightShortCircuits ==
  \A i \in Identities : Preflight(i) => ShortCircuits(i)

\* C15: every CORS preflight request whose Origin is one of the trusted
\* origins short-circuits in enableCORS: it never reaches the limiter,
\* authentication or the router, consumes no rate-limit token and causes no
\* credential lookup.
C15_TrustedPreflightShortCircuits ==
  \A i \in Identities :
    Preflight(i) /\ cors[i].origin \in trustedOrigins => ShortCircuits(i)

\* a preflight request of a trusted origin that carries a bearer token was
\* answered 200 by enableCORS
C15_Witness ==
  \E p \in Reqs :
    /\ Preflight(req[p].ip) /\ cors[req[p].ip].origin \in trustedOrigins
    /\ AuthorizationHeader(p) # <<>>
    /\ req[p].pc = "done" /\ req[p].status = StatusOK
    /\ req[p].stage = StageOf("enableCORS")

(***************************************************************************)
(* Observations of the principal behind authenticate.                      *)
(***************************************************************************)
\* request p has been dispatched by the router
ReachedRouter(p) == req[p].pc # "idle" /\ req[p].stage > StageOf("authenticate")

\* request p is in, or was answered by, the stage of the given name
AtStage(p, name) ==
  req[p].stage \in 1..Len(chain) /\ chain[req[p].stage] = name

\* C13: every request that reaches the router (a route handler, a per-route
\* guard, the not-found handler) has a principal, anonymous or concrete, in
\* its context, so contextGetUser never panics inside the composed pipeline.
C13_PrincipalBehindAuthenticate ==
  \A p \in Reqs :
    /\ ReachedRouter(p) => req[p].user.kind \in {"anonymous", "user"}
    /\ req[p].pc \notin {"panic", "rc_recover"}
    /\ ~req[p].recovered

\* a handler read the concrete principal from the context, and a guard the
\* anonymous one
C13_Witness ==
  \E p, q \in Reqs :
    /\ AtStage(p, "showCurrentUser")
    /\ req[p].pc = "done" /\ req[p].status = StatusOK
    /\ req[p].user.kind = "user"
    /\ AtStage(q, "requireAuthenticatedUser")
    /\ req[q].pc = "done" /\ req[q].status = StatusUnauthorized
    /\ req[q].user = AnonymousUser

(***************************************************************************)
(* Observations of the disabled limiter.                                   *)
(***************************************************************************)
\* C21: with the limiter disabled by configuration, rateLimit passes every
\* request on to the next handler unchanged: no request is answered 429, no
\* request takes the lock or looks up a bucket, and no client bucket is
\* ever created or modified.
C21_DisabledIsPassThrough ==
  ~config.enabled =>
    /\ \A i \in Identities : clients[i] = Absent
    /\ \A p \in Reqs :
         /\ mu # p
         /\ req[p].pc \in {"idle", "rl_enter", "final", "done"}
         /\ req[p].status # StatusTooManyRequests
         /\ req[p].pc = "final" =>
              req[p] = [IdleReq EXCEPT !.pc = "final", !.stage = 2,
                                       !.ip = req[p].ip]
         /\ req[p].pc = "done" =>
              /\ PassedOn(p)
              /\ req[p].nextCalls = 1
              /\ req[p].status = StatusOK

\* with burst 0 and no refill three requests of one identity were all
\* served by the next handler, and the sweep has run
C21_Witness ==
  /\ ~config.enabled /\ config.burst = 0 /\ config.rps = 0
  /\ From("ipA") = Reqs
  /\ \A p \in Reqs : req[p].pc = "done" /\ req[p].status = StatusOK
                                        /\ req[p].nextCalls = 1
  /\ now >= 1 /\ sweeper = "sleep"

(***************************************************************************)
(* Observations of the signal-handling goroutine of serve().               *)
(***************************************************************************)
\* serve() has not returned, so that  err = <-shutdown  is or will be
\* executed
ReceiverAhead == mainPc \in {"start", "serving", "recv"}

\* C22: on every shutdown path the signal-handling goroutine sends exactly
\* one value on the unbuffered shutdown channel and every send has a
\* receiver, also when srv.Shutdown returns an error and when
\* ListenAndServe fails: the goroutine is never at a send after serve() has
\* returned, and never sends again after it has sent the shutdown error.
C22_EverySendHasReceiver ==
  /\ sigPc \in {"send_err", "send_nil"} => ReceiverAhead
  /\ sigPc = "send_nil" => sdErr # "deadline"

(***************************************************************************)
(* Observations of eviction.                                               *)
(***************************************************************************)
\* C23: evicting an idle entry and recreating it never admits more than
\* keeping it would have: for every rate and burst the number of requests
\* of one identity admitted since the start is at most burst + rate x
\* elapsed time.
C23_EvictionNeverOverAdmits ==
  config.enabled =>
    \A i \in Identities :
      Cardinality({p \in From(i) : Granted(p)}) <= config.burst + config.rps * now

(***************************************************************************)
(* Observations of the sweep.                                              *)
(***************************************************************************)
\* the entry of identity i is deleted in this step
Deletes(i) == clients[i].present /\ ~clients'[i].present

\* request p is between mu.Lock() and mu.Unlock()
InCriticalSection(p) ==
  req[p].pc \in {"rl_lookup", "rl_create", "rl_allow", "rl_admit", "rl_reject"}

\* C24: the sweep removes an entry only if at sweep time its last-seen time
\* is more than 3 minutes in the past, and it runs entirely under the
\* limiter lock: no entry is deleted while a request is between its lookup
\* or creation of an entry and its token consumption, so the entry a request
\* found or created is still there when it consumes a token.
C24_SweepUnderLock ==
  /\ [](/\ sweeper = "sweep" <=> mu = Sweeper
        /\ \A p \in Reqs :
             /\ InCriticalSection(p) <=> mu = p
             /\ req[p].pc = "rl_allow" => clients[req[p].ip].present
             /\ req[p].pc # "panic")
  /\ [][\A i \in Identities : Deletes(i) =>
          /\ mu = Sweeper
          /\ now - clients[i].lastSeen > 3 * SweepInterval
          /\ \A p \in Reqs : ~InCriticalSection(p)
          /\ mu' = NoOne]_vars

\* the sweep at minute 4 has removed the entry last seen at minute 0 and
\* kept the one last seen at minute 1, while a request was waiting for the
\* lock
C24_Witness ==
  /\ now = 4 /\ sweeper = "sleep"
  /\ ~clients["ipA"].present
  /\ clients["ipB"].present /\ clients["ipB"].lastSeen = 1
  /\ \E p \in Reqs : req[p].ip = "ipA" /\ req[p].nextCalls = 1
  /\ \E p \in Reqs : req[p].ip = "ipA" /\ req[p].pc = "rl_enter"

(***************************************************************************)
(* Observations of the limiter lock.                                       *)
(***************************************************************************)
\* request p is in a handler behind rateLimit, or unwinding from it
Downstream(p) == req[p].pc \in {"h_enter", "h_run", "rc_recover"}

\* C25: the limiter mutex is held by a request only from its bucket lookup
\* to its token check and is released on the admit path and on the reject
\* path, so that neither the next handler nor the 429 response runs under
\* it; the sweep holds it only while it sweeps; no request that is in a
\* downstream handler, has panicked or has returned, and no sleeping
\* sweeper, holds the lock, so a request waiting for admission is never
\* blocked by a slow or panicking handler.
C25_LockOnlyAroundDecision ==
  /\ mu = Sweeper <=> sweeper = "sweep"
  /\ \A p \in Reqs :
       /\ mu = p <=> InCriticalSection(p)
       /\ Downstream(p) \/ req[p].pc \in {"done", "panic"} => mu # p
       /\ req[p].status # 0 \/ req[p].nextCalls > 0 => mu # p
  /\ (\A p \in Reqs : ~InCriticalSection(p)) /\ sweeper # "sweep" => MutexFree

\* with one request still inside the handler and another one recovered
\* from a panic of the handler, a request of the same identity was decided
\* (and throttled) and the lock is free
C25_Witness ==
  /\ MutexFree
  /\ \E p, q, r \in Reqs :
       /\ req[p].ip = req[q].ip /\ req[q].ip = req[r].ip
       /\ req[p].pc = "h_run"
       /\ req[q].recovered /\ req[q].pc = "done"
       /\ Throttled(r) /\ r > p /\ r > q

(***************************************************************************)
(* Observations of tasks registered during shutdown.                       *)
(***************************************************************************)
\* the tasks registered after the termination signal and not yet
\* deregistered (a task registered before it and still outstanding was
\* outstanding at the signal)
RegisteredSinceSignal == {t \in Outstanding : t \notin atSignal}

\* app.wg.Wait() has returned on the path on which srv.Shutdown returned nil
WaitObservedZero == sdErr = "nil" /\ sigPc \in {"send_nil", "exit"}

\* C26: a background task registered by a handler that was in flight when
\* the signal arrived is awaited too: app.wg.Wait() starts only after
\* srv.Shutdown has returned; when Shutdown returned nil no handler is left
\* in flight, so no task is registered after the wait has observed a zero
\* count, and serve() never returns nil while a task is outstanding.
C26_LateTasksAwaited ==
  /\ [](/\ sigPc \in {"wg_wait", "send_nil", "exit"} => sdErr # "pending"
        /\ sdErr = "nil" => ActiveConns = {}
        /\ WaitObservedZero => wg = 0 /\ Outstanding = {}
        /\ result = "nil" => WaitObservedZero)
  /\ [][WaitObservedZero => wg' = wg /\ task' = task]_vars

\* srv.Shutdown has returned nil within the grace window and app.wg.Wait()
\* is waiting for a task that a handler registered after the signal
C26_Witness ==
  /\ sigPc = "wg_wait" /\ sdErr = "nil" /\ grace = "running"
  /\ result = "none"
  /\ \E t \in RegisteredSinceSignal : task[t] = "running"
  /\ wg > 0

(***************************************************************************)
(* Observations of repeated calls of app.routes().                         *)
(***************************************************************************)
\* the call of app.routes() made for request p has panicked
RoutesPanicked(p) == req[p].pc = "panic" /\ req[p].stage = 0

\* C27: app.routes() can be called more than once in one process, as
\* executeRequest does for every request: no call panics while registering
\* the metrics counters, and every request is served by the pipeline that
\* was built for it.
C27_RoutesRepeatable ==
  \A p \in Reqs : ~RoutesPanicked(p)

(***************************************************************************)
(* Observations of cancellation.                                           *)
(***************************************************************************)
\* the store has answered the call: a row, or no row
Answered(err) == err \in {"nil", "ErrRecordNotFound"}

\* C28: a client disconnect (the cancellation of the request's context)
\* cancels the credential-store or permission-store call that is issued for
\* the request: a call made for a request whose context is cancelled is not
\* carried out to an answer of the store.
C28_DisconnectCancelsStoreCall ==
  [][\A p \in Reqs : req[p].cancelled =>
       /\ LookupStep(p) => ~Answered(req'[p].err)
       /\ Decides(p) => ~Answered(req'[p].err)]_vars

(***************************************************************************)
(* Observations of account activation.                                     *)
(***************************************************************************)
\* the store holds a live activation credential for the plaintext
LiveActivation(pt) ==
  \E t \in tokens : /\ t.hash = Sha256(pt)
                    /\ t.scope = ScopeActivation
                    /\ t.expires > now

\* activateUserHandler answers request p in this step, the body being JSON
\* and the store answering its query
ActivationAnswered(p) ==
  /\ req[p].pc \in {"av_enter", "av_lookup"}
  /\ req'[p].pc = "done"
  /\ req'[p].err \notin {"json", "other"}

\* C29: PUT /v1/users/activate with a token that does not match a live
\* activation credential (malformed, unknown or expired) is answered 422
\* failed validation, never with a server error, and leaves the active flag
\* of every user unchanged.
C29_BadActivationTokenIs422 ==
  [][\A p \in Reqs :
       ActivationAnswered(p) /\ ~LiveActivation(req'[p].token) =>
         /\ req'[p].status = StatusUnprocessableEntity
         /\ ~req'[p].logged
         /\ users' = users]_vars

(***************************************************************************)
(* Observations of updates of user records.                                *)
(***************************************************************************)
\* updateUserHandler, run for request p, changes the stored record or the
\* permission set of a user in this step
Modifies(p) ==
  /\ req[p].pc = "uu_enter"
  /\ req'[p].pc = "done"
  /\ users' # users \/ permissions' # permissions

\* the principal of request p is a user that was active when authenticated
\* and holds users:update, now or when requirePermissions looked it up
AuthorisedToUpdate(p) ==
  /\ req[p].user.kind = "user"
  /\ req[p].user.active
  /\ \/ "users:update" \in permissions[req[p].user.id]
     \/ req[p].permLookups >= 1

\* C30: the stored active flag and permission set (role) of a user are
\* changed through the API only by a request whose principal is active and
\* holds users:update; no request of a principal without that permission,
\* PUT /v1/users/profile/:id included, modifies the record or the
\* permissions of another user.
C30_OnlyUsersUpdateModifies ==
  [][\A p \in Reqs : Modifies(p) => AuthorisedToUpdate(p)]_vars

====
